---------------------------- MODULE Spec2Model ----------------------------
(***************************************************************************)
(* Model of the Mode S / ADS-B decoder: CRC engine (crc.rs), message       *)
(* parser (decoder.rs), demodulator dispatch (demodulator.rs), frame       *)
(* channel and consumers (main.rs, network.rs) and the aircraft store with *)
(* its CPR solver (aircraft.rs).                                           *)
(*                                                                         *)
(* Conventions.  A frame buffer is a sequence of 14 bytes; Rust's msg[i]   *)
(* is B(msg, i) here (TLA+ sequences start at 1).  Option::None is the     *)
(* value None.  The clock counts whole seconds.  f64 values of the CPR     *)
(* solver are exact rationals [n |-> numerator, d |-> denominator].        *)
(***************************************************************************)
EXTENDS Integers, Sequences, FiniteSets, TLC

VARIABLES
    cfg,            \* Config: fix_errors, aggressive, check_crc
    known_icaos,    \* Demodulator.known_icaos
    validated,      \* addresses in bytes 1-3 of the CRC-validated DF11/17/18 frames demodulated so far
    chan,           \* frames in flight on the bounded channel msg_tx -> msg_rx
    aircraft,       \* AircraftStore.aircraft : address -> Aircraft
    history,        \* per tracked address: the parities received and whether a solve committed
    now,            \* the monotonic clock read by Instant::now()
    prune_due,      \* the cleanup task's interval has ticked and remove_stale has not run yet
    applied,        \* the record handed to the last update_from_message call (None before the first)
    solved,         \* whether that call invoked decode_cpr, and whether it committed
    nsteps,         \* number of producer / client inputs consumed so far
    fn_in,          \* input of the pure function under test
    fn_out,         \* its result (None before it has run)
    loop_file,      \* Config.loop_file
    producer,       \* main thread: process_file "reading", "rewound" (file reopened at its
                    \* end) or "done"; then "aborting" the tasks, then "exited"
    consumer,       \* process_messages: "spawned" (not polled yet), "running" or "exited"
    sent_log,       \* the records tx.send has accepted, in order
    applied_log,    \* the records process_messages has handed to update_from_message, in order
    task_pos,       \* position of each task that uses the store's RwLock
    lease,          \* what each of these tasks holds of the RwLock: "none", "read" or "write"
    data,           \* process_file's sample buffer
    stream,         \* the samples process_file has consumed from its reader, in order
    window,         \* the slice handed to compute_magnitude_vector by the last iteration
    scenario,       \* the scan under way: which detector runs, on which sample stream
    mag,            \* the magnitude vector handed to the detector
    win_base,       \* offset in the sample stream of the first sample of mag
    cursor,         \* j of the detector's scan loop
    scan,           \* the detector: "idle", "scanning", "returned" or "panicked"
    iter,           \* what the last iteration of the scan loop did (None before the first)
    noise,          \* SignalProcessor: noise_floor and noise_samples
    examined        \* the stream offsets the scan loops have tested for a preamble

\* the producer / consumer pair around the channel
ChannelVars == <<loop_file, producer, consumer, sent_log, applied_log>>

\* the tasks around the RwLock
LeaseVars == <<task_pos, lease>>

\* the read loop of process_file
WindowVars == <<data, stream, window>>

\* the detectors' scan loops
ScanVars == <<scenario, mag, win_base, cursor, scan, iter, noise, examined>>

vars == <<cfg, known_icaos, validated, chan, aircraft, history, now, prune_due, applied, solved,
          nsteps, fn_in, fn_out, ChannelVars, LeaseVars, WindowVars, ScanVars>>

\* Option: None is the empty sequence, Some(x) the one-element sequence
None == <<>>

Some(x) == <<x>>

\* the value inside a Some
Unwrap(o) == o[1]

-----------------------------------------------------------------------------
(* Machine arithmetic on unsigned values *)

RECURSIVE BitAnd(_, _)
BitAnd(a, b) ==
    IF a = 0 \/ b = 0 THEN 0
    ELSE (IF a % 2 = 1 /\ b % 2 = 1 THEN 1 ELSE 0) + 2 * BitAnd(a \div 2, b \div 2)

RECURSIVE BitOr(_, _)
BitOr(a, b) ==
    IF a = 0 THEN b
    ELSE IF b = 0 THEN a
    ELSE (IF a % 2 = 1 \/ b % 2 = 1 THEN 1 ELSE 0) + 2 * BitOr(a \div 2, b \div 2)

RECURSIVE BitXor(_, _)
BitXor(a, b) ==
    IF a = 0 THEN b
    ELSE IF b = 0 THEN a
    ELSE (((a % 2) + (b % 2)) % 2) + 2 * BitXor(a \div 2, b \div 2)

Shr(a, n) == a \div (2 ^ n)

Shl(a, n) == a * (2 ^ n)

\* Rust's msg[i]
B(msg, i) == msg[i + 1]

\* msg with byte i replaced
SetB(msg, i, v) == [msg EXCEPT ![i + 1] = v]

-----------------------------------------------------------------------------
(* crc.rs *)

MODES_LONG_MSG_BITS == 112

MODES_SHORT_MSG_BITS == 56

MODES_LONG_MSG_BYTES == 14

MODES_CHECKSUM_TABLE == <<
    3749354, 1874677, 15841150, 7920575, 12818395, 10367465, 11592432, 5796216,
    2898108, 1449054, 724527, 16416019, 8569997, 12490818, 6245409, 13655060,
    6827530, 3413765, 15069574, 7534787, 13010533, 10271030, 5135515, 14210121,
    9670688, 4835344, 2417672, 1208836, 604418, 302209, 16626756, 8313378,
    4156689, 14699660, 7349830, 3674915, 14939029, 9307086, 4653543, 14449399,
    9553791, 11999675, 10778329, 11387240, 5693620, 2846810, 1423405, 16066066,
    8033033, 12759936, 6379968, 3189984, 1594992, 797496, 398748, 199374,
    99687, 16726199, 8414815, 12568875, 10493585, 11531596, 5765798, 2882899,
    15336621, 9107538, 4553769, 14500880, 7250440, 3625220, 1812610, 906305,
    16322596, 8161298, 4080649, 14735360, 7367680, 3683840, 1841920, 920960,
    460480, 230240, 115120, 57560, 28780, 14390, 7195, 16774153,
    0, 0, 0, 0, 0, 0, 0, 0,
    0, 0, 0, 0, 0, 0, 0, 0,
    0, 0, 0, 0, 0, 0, 0, 0 >>

\* A 24-bit accumulator as the set of its one-bit positions: XOR of two
\* accumulators is the symmetric difference of their bit sets.
Bits24(n) == {i \in 0..23 : (n \div (2 ^ i)) % 2 = 1}

RECURSIVE FromBits24(_, _)
FromBits24(S, i) ==
    IF i > 23 THEN 0 ELSE (IF i \in S THEN 2 ^ i ELSE 0) + FromBits24(S, i + 1)

XorBits(S, T) == (S \ T) \cup (T \ S)

ChecksumTableBits == [j \in 1..112 |-> Bits24(MODES_CHECKSUM_TABLE[j])]

\* the contribution of bit j to the accumulator of modes_checksum
ChecksumTerm(msg, offset, j) ==
    LET byte_idx == j \div 8
        bit_idx  == j % 8
        bitmask  == Shl(1, 7 - bit_idx)
    IN  IF (B(msg, byte_idx) \div bitmask) % 2 # 0    \* msg[byte_idx] & bitmask != 0
        THEN ChecksumTableBits[j + offset + 1]
        ELSE {}

\* the for loop of modes_checksum over the bits lo .. hi: crc ^= term for
\* each j.  XOR is associative and commutative, so the range is folded in
\* halves, which keeps the evaluation shallow.
RECURSIVE ChecksumLoop(_, _, _, _)
ChecksumLoop(msg, offset, lo, hi) ==
    IF lo = hi THEN ChecksumTerm(msg, offset, lo)
    ELSE LET mid == (lo + hi) \div 2
         IN  XorBits(ChecksumLoop(msg, offset, lo, mid),
                     ChecksumLoop(msg, offset, mid + 1, hi))

modes_checksum(msg, bits) ==
    LET offset == IF bits = 112 THEN 0 ELSE 112 - 56
    IN  FromBits24(ChecksumLoop(msg, offset, 0, bits - 1), 0)

extract_crc(msg, bits) ==
    LET len == bits \div 8
    IN  Shl(B(msg, len - 3), 16) + Shl(B(msg, len - 2), 8) + B(msg, len - 1)   \* disjoint fields: | is +

\* aux[byte_idx] ^= bitmask
FlipBit(msg, j) ==
    LET byte_idx == j \div 8
        bitmask  == Shl(1, 7 - (j % 8))
    IN  SetB(msg, byte_idx, BitXor(B(msg, byte_idx), bitmask))

\* whether msg with bit j flipped passes the CRC comparison
OneFlipMatches(msg, bits, j) ==
    LET aux == FlipBit(msg, j)
    IN  extract_crc(aux, bits) = modes_checksum(aux, bits)

\* the for loop of fix_single_bit_errors: it returns at the first (smallest)
\* j in 0 .. bits-1 that matches; the result is the Option returned and the
\* buffer left in msg
FixSingleLoop(msg, bits) ==
    LET hits == {j \in 0..(bits - 1) : OneFlipMatches(msg, bits, j)}
    IN  IF hits = {} THEN [bit |-> None, msg |-> msg]
        ELSE LET j == CHOOSE x \in hits : \A y \in hits : x <= y
             IN  [bit |-> Some(j), msg |-> FlipBit(msg, j)]

\* fix_single_bit_errors without the copy of the repaired bytes back into msg
FixSingleNoCopyBack(msg, bits) == [bit |-> FixSingleLoop(msg, bits).bit, msg |-> msg]

fix_single_bit_errors(msg, bits) == FixSingleLoop(msg, bits)

\* whether msg with bits j and i flipped passes the CRC comparison
TwoFlipMatches(msg, bits, j, i) ==
    LET aux == FlipBit(FlipBit(msg, j), i)
    IN  extract_crc(aux, bits) = modes_checksum(aux, bits)

\* the outer loop of fix_two_bit_errors from bit j on; the inner loop
\* returns at the first (smallest) i in j+1 .. bits-1 that matches
RECURSIVE FixTwoLoop(_, _, _)
FixTwoLoop(msg, bits, j) ==
    IF j >= bits THEN [bit1 |-> None, bit2 |-> None, msg |-> msg]
    ELSE LET hits == {i \in (j + 1)..(bits - 1) : TwoFlipMatches(msg, bits, j, i)}
         IN  IF hits # {}
             THEN LET i == CHOOSE x \in hits : \A y \in hits : x <= y
                  IN  [bit1 |-> Some(j), bit2 |-> Some(i), msg |-> FlipBit(FlipBit(msg, j), i)]
             ELSE FixTwoLoop(msg, bits, j + 1)

fix_two_bit_errors(msg, bits) == FixTwoLoop(msg, bits, 0)

-----------------------------------------------------------------------------
(* decoder.rs *)

AIS_CHARSET == <<
    "?", "A", "B", "C", "D", "E", "F", "G", "H", "I", "J", "K", "L", "M", "N", "O",
    "P", "Q", "R", "S", "T", "U", "V", "W", "X", "Y", "Z", "?", "?", "?", "?", "?",
    " ", "?", "?", "?", "?", "?", "?", "?", "?", "?", "?", "?", "?", "?", "?", "?",
    "0", "1", "2", "3", "4", "5", "6", "7", "8", "9", "?", "?", "?", "?", "?", "?" >>

\* str::trim on a sequence of characters (the only whitespace the charset
\* holds is the space)
Trim(s) ==
    LET keep == {i \in 1..Len(s) : s[i] # " "}
    IN  IF keep = {} THEN <<>>
        ELSE LET lo == CHOOSE i \in keep : \A k \in keep : i <= k
                 hi == CHOOSE i \in keep : \A k \in keep : k <= i
             IN  SubSeq(s, lo, hi)

message_len_by_type(df) ==
    IF df \in {16, 17, 19, 20, 21} THEN MODES_LONG_MSG_BITS ELSE MODES_SHORT_MSG_BITS

\* the eight 6-bit character indices packed in the six bytes from byte o on
CharIndices(m, o) ==
    << Shr(B(m, o), 2),
       Shl(BitAnd(B(m, o), 3), 4) + Shr(B(m, o + 1), 4),
       Shl(BitAnd(B(m, o + 1), 15), 2) + Shr(B(m, o + 2), 6),
       BitAnd(B(m, o + 2), 63),
       Shr(B(m, o + 3), 2),
       Shl(BitAnd(B(m, o + 3), 3), 4) + Shr(B(m, o + 4), 4),
       Shl(BitAnd(B(m, o + 4), 15), 2) + Shr(B(m, o + 5), 6),
       BitAnd(B(m, o + 5), 63) >>

try_decode_bds_10(mb) ==
    IF B(mb, 0) # 16 THEN None
    ELSE Some([tag |-> "DataLinkCapability",
               continuation_flag  |-> BitAnd(B(mb, 1), 128) # 0,
               overlay_capability |-> BitAnd(B(mb, 1), 2) # 0])

\* the validity test try_decode_bds_20 applies to one character index
Bds20CharValid(idx) == ~(idx >= 64) /\ ~(AIS_CHARSET[idx + 1] = "?" /\ idx # 0)

try_decode_bds_20(mb) ==
    LET char_indices == CharIndices(mb, 0)
        valid_chars  == \A n \in 1..8 : Bds20CharValid(char_indices[n])
        chars        == [n \in 1..8 |->
                            AIS_CHARSET[(IF char_indices[n] < 63 THEN char_indices[n] ELSE 63) + 1]]
        callsign     == Trim(chars)
    IN  IF ~valid_chars THEN None
        ELSE IF callsign = <<>> \/ \A n \in 1..Len(callsign) : callsign[n] \in {" ", "?"}
        THEN None
        ELSE Some([tag |-> "AircraftIdentification", callsign |-> callsign])

try_decode_bds_30(mb) ==
    LET ara == Shl(B(mb, 0), 6) + Shr(B(mb, 1), 2)
        rac == Shl(BitAnd(B(mb, 1), 3), 2) + Shr(B(mb, 2), 6)
        rat == BitAnd(B(mb, 2), 32) # 0
        mte == BitAnd(B(mb, 2), 16) # 0
    IN  IF ara = 0 /\ rac = 0 THEN None
        ELSE Some([tag |-> "AcasResolutionAdvisory",
                   ara |-> ara, rac |-> rac, rat |-> rat, mte |-> mte])

\* baro_setting is kept in tenths of a millibar: 800.0 + raw * 0.1
try_decode_bds_40(mb) ==
    LET mcp_status   == BitAnd(B(mb, 0), 128) # 0
        fms_status   == BitAnd(B(mb, 2), 128) # 0
        baro_status  == BitAnd(B(mb, 4), 128) # 0
        mcp_altitude == IF mcp_status
                        THEN Some((Shl(BitAnd(B(mb, 0), 127), 5) + Shr(B(mb, 1), 3)) * 16)
                        ELSE None
        fms_altitude == IF fms_status
                        THEN Some((Shl(BitAnd(B(mb, 2), 127), 5) + Shr(B(mb, 3), 3)) * 16)
                        ELSE None
        baro_setting == IF baro_status
                        THEN Some(8000 + (Shl(BitAnd(B(mb, 4), 127), 5) + Shr(B(mb, 5), 3)))
                        ELSE None
    IN  IF mcp_altitude = None /\ fms_altitude = None /\ baro_setting = None THEN None
        ELSE IF mcp_altitude # None /\ Unwrap(mcp_altitude) > 50000 THEN None
        ELSE IF fms_altitude # None /\ Unwrap(fms_altitude) > 50000 THEN None
        ELSE IF baro_setting # None
                /\ (Unwrap(baro_setting) < 8500 \/ Unwrap(baro_setting) > 11000) THEN None
        ELSE Some([tag |-> "SelectedVerticalIntention",
                   mcp_altitude  |-> mcp_altitude,
                   fms_altitude  |-> fms_altitude,
                   baro_setting  |-> baro_setting,
                   vnav_mode     |-> BitAnd(B(mb, 6), 8) # 0,
                   alt_hold_mode |-> BitAnd(B(mb, 6), 4) # 0,
                   approach_mode |-> BitAnd(B(mb, 6), 2) # 0])

\* two's complement of a w-bit raw value whose sign bit is sign
Signed(raw, sign, w) == IF BitAnd(raw, sign) # 0 THEN raw - w ELSE raw

Abs(x) == IF x < 0 THEN -x ELSE x

Count(flags) == Cardinality({n \in 1..Len(flags) : flags[n]})

\* roll_angle is kept as the numerator of signed * 45 / 256, true_track of
\* raw * 90 / 512, track_rate of signed * 8 / 256
try_decode_bds_50(mb) ==
    LET roll_status       == BitAnd(B(mb, 0), 128) # 0
        track_status      == BitAnd(B(mb, 1), 16) # 0
        gs_status         == BitAnd(B(mb, 2), 2) # 0
        track_rate_status == BitAnd(B(mb, 3), 64) # 0
        tas_status        == BitAnd(B(mb, 4), 8) # 0
        roll_angle    == IF roll_status
                         THEN Some(Signed(Shl(BitAnd(B(mb, 0), 127), 3) + Shr(B(mb, 1), 5),
                                          512, 1024) * 45)
                         ELSE None
        true_track    == IF track_status
                         THEN Some((Shl(BitAnd(B(mb, 1), 15), 7) + Shr(B(mb, 2), 1)) * 90)
                         ELSE None
        ground_speed  == IF gs_status
                         THEN Some((Shl(BitAnd(B(mb, 2), 1), 9) + Shl(B(mb, 3), 1)
                                    + Shr(B(mb, 4), 7)) * 2)
                         ELSE None
        track_rate    == IF track_rate_status
                         THEN Some(Signed(Shl(BitAnd(B(mb, 4), 63), 3) + Shr(B(mb, 5), 5),
                                          256, 512) * 8)
                         ELSE None
        true_airspeed == IF tas_status
                         THEN Some((Shl(BitAnd(B(mb, 5), 31), 5) + Shr(B(mb, 6), 3)) * 2)
                         ELSE None
        valid_count   == Count(<<roll_status, track_status, gs_status,
                                 track_rate_status, tas_status>>)
    IN  IF valid_count < 2 THEN None
        ELSE IF roll_angle # None /\ Abs(Unwrap(roll_angle)) > 60 * 256 THEN None
        ELSE IF ground_speed # None /\ Unwrap(ground_speed) > 600 THEN None
        ELSE IF true_airspeed # None /\ Unwrap(true_airspeed) > 600 THEN None
        ELSE Some([tag |-> "TrackAndTurnReport",
                   roll_angle    |-> roll_angle,
                   true_track    |-> true_track,
                   ground_speed  |-> ground_speed,
                   track_rate    |-> track_rate,
                   true_airspeed |-> true_airspeed])

\* magnetic_heading is kept as the numerator of raw * 90 / 512, mach in
\* thousandths (raw * 0.008)
try_decode_bds_60(mb) ==
    LET hdg_status           == BitAnd(B(mb, 0), 128) # 0
        ias_status           == BitAnd(B(mb, 1), 16) # 0
        mach_status          == BitAnd(B(mb, 2), 2) # 0
        baro_rate_status     == BitAnd(B(mb, 3), 64) # 0
        inertial_rate_status == BitAnd(B(mb, 4), 8) # 0
        magnetic_heading   == IF hdg_status
                              THEN Some((Shl(BitAnd(B(mb, 0), 127), 4) + Shr(B(mb, 1), 4)) * 90)
                              ELSE None
        indicated_airspeed == IF ias_status
                              THEN Some(Shl(BitAnd(B(mb, 1), 15), 6) + Shr(B(mb, 2), 2))
                              ELSE None
        mach               == IF mach_status
                              THEN Some((Shl(BitAnd(B(mb, 2), 1), 9) + Shl(B(mb, 3), 1)
                                         + Shr(B(mb, 4), 7)) * 8)
                              ELSE None
        baro_altitude_rate == IF baro_rate_status
                              THEN Some(Signed(Shl(BitAnd(B(mb, 4), 63), 4) + Shr(B(mb, 5), 4),
                                               512, 1024) * 32)
                              ELSE None
        inertial_altitude_rate ==
                              IF inertial_rate_status
                              THEN Some(Signed(Shl(BitAnd(B(mb, 5), 15), 6) + Shr(B(mb, 6), 2),
                                               512, 1024) * 32)
                              ELSE None
        valid_count        == Count(<<hdg_status, ias_status, mach_status,
                                      baro_rate_status, inertial_rate_status>>)
    IN  IF valid_count < 2 THEN None
        ELSE IF indicated_airspeed # None /\ Unwrap(indicated_airspeed) > 500 THEN None
        ELSE IF mach # None /\ Unwrap(mach) > 1000 THEN None
        ELSE Some([tag |-> "HeadingAndSpeedReport",
                   magnetic_heading       |-> magnetic_heading,
                   indicated_airspeed     |-> indicated_airspeed,
                   mach                   |-> mach,
                   baro_altitude_rate     |-> baro_altitude_rate,
                   inertial_altitude_rate |-> inertial_altitude_rate])

\* value when the bit of code selected by mask is set, else 0
GillhamBit(code, mask, value) == IF BitAnd(code, mask) # 0 THEN value ELSE 0

\* x ^= x >> 4; x ^= x >> 2; x ^= x >> 1
GrayToBinary(gray) ==
    LET x4 == BitXor(gray, Shr(gray, 4))
        x2 == BitXor(x4, Shr(x4, 2))
    IN  BitXor(x2, Shr(x2, 1))

Min(a, b) == IF a < b THEN a ELSE b

\* the altitude of a 500 ft band and a 100 ft step, range-checked
GillhamAltitude(five_hundreds, hundreds) ==
    LET altitude == (five_hundreds * 500) + (hundreds * 100) - 1300
    IN  IF altitude >= -1200 /\ altitude <= 126700 THEN Some(altitude) ELSE None

\* code bits, from bit 10 down: D4 D2 B4 B2 B1 A4 A2 A1 C4 C2 C1
decode_gillham_altitude(code) ==
    IF code = 0 THEN None
    ELSE LET a1            == BitAnd(code, 8) # 0
             grayval       == GillhamBit(code, 1024, 32) + GillhamBit(code, 512, 16)
                              + GillhamBit(code, 256, 4) + GillhamBit(code, 128, 2)
                              + GillhamBit(code, 64, 1)
             gray100       == GillhamBit(code, 4, 16) + GillhamBit(code, 2, 8)
                              + GillhamBit(code, 1, 4) + GillhamBit(code, 32, 2)
                              + GillhamBit(code, 16, 1)
             one_hundreds  == GrayToBinary(gray100)
             hundreds      == IF a1 THEN 4 - Min(one_hundreds % 5, 4)
                              ELSE Min(one_hundreds % 5, 4)
         IN  GillhamAltitude(GrayToBinary(grayval), hundreds)

\* the cascade with BDS 1,0 probed first instead of last
DecodeMbFieldBds10First(msg) ==
    LET mb == SubSeq(msg, 5, 11)
    IN  IF try_decode_bds_10(mb) # None THEN try_decode_bds_10(mb)
        ELSE IF try_decode_bds_20(mb) # None THEN try_decode_bds_20(mb)
        ELSE IF try_decode_bds_40(mb) # None THEN try_decode_bds_40(mb)
        ELSE IF try_decode_bds_50(mb) # None THEN try_decode_bds_50(mb)
        ELSE IF try_decode_bds_60(mb) # None THEN try_decode_bds_60(mb)
        ELSE IF try_decode_bds_30(mb) # None THEN try_decode_bds_30(mb)
        ELSE Some([tag |-> "Unknown", bds_code |-> 0, data |-> mb])

decode_mb_field(msg) ==
    LET mb == SubSeq(msg, 5, 11)      \* &msg[4..11]
    IN  IF try_decode_bds_20(mb) # None THEN try_decode_bds_20(mb)
        ELSE IF try_decode_bds_40(mb) # None THEN try_decode_bds_40(mb)
        ELSE IF try_decode_bds_50(mb) # None THEN try_decode_bds_50(mb)
        ELSE IF try_decode_bds_60(mb) # None THEN try_decode_bds_60(mb)
        ELSE IF try_decode_bds_30(mb) # None THEN try_decode_bds_30(mb)
        ELSE IF try_decode_bds_10(mb) # None THEN try_decode_bds_10(mb)
        ELSE Some([tag |-> "Unknown", bds_code |-> 0, data |-> mb])


\* mm.msg[..len].copy_from_slice(raw_msg) into the zeroed 14-byte buffer
PadMsg(raw_msg) ==
    [i \in 1..MODES_LONG_MSG_BYTES |-> IF i <= Len(raw_msg) THEN raw_msg[i] ELSE 0]

IcaoInMessage(msg_type) == msg_type \in {11, 17, 18}

\* the bytes of a 24-bit address, most significant first
AddrBytes(a) == << BitAnd(Shr(a, 16), 255), BitAnd(Shr(a, 8), 255), BitAnd(a, 255) >>

\* ModesMessage::icao_address
icao_address(mm) == Shl(mm.aa[1], 16) + Shl(mm.aa[2], 8) + mm.aa[3]

\* the CRC fields of a record: stored buffer, CRC field, verdict, error bits
CrcFields(msg, crc, crc_ok, error_bit, error_bit2) ==
    [msg |-> msg, crc |-> crc, crc_ok |-> crc_ok,
     error_bit |-> error_bit, error_bit2 |-> error_bit2]

\* the outcome of the two-bit attempt two on a record whose CRC failed
RepairTwo(msg, msg_bits, crc, two) ==
    IF two.bit1 # None
    THEN CrcFields(two.msg, extract_crc(two.msg, msg_bits), TRUE, two.bit1, two.bit2)
    ELSE CrcFields(msg, crc, FALSE, None, None)

\* the outcome of the single-bit attempt one; the two-bit attempt follows
\* only when it found nothing and try_two holds
RepairOne(msg, msg_bits, crc, one, try_two) ==
    IF one.bit # None
    THEN CrcFields(one.msg, extract_crc(one.msg, msg_bits), TRUE, one.bit, None)
    ELSE IF try_two
    THEN RepairTwo(msg, msg_bits, crc, fix_two_bit_errors(msg, msg_bits))
    ELSE CrcFields(msg, crc, FALSE, None, None)

\* the error-correction block applied to every DF and with the two-bit
\* attempt on every 112-bit frame
RepairAllDF(msg, msg_bits, msg_type, crc, fix_errors, aggressive) ==
    IF ~fix_errors
    THEN CrcFields(msg, crc, FALSE, None, None)
    ELSE RepairOne(msg, msg_bits, crc, fix_single_bit_errors(msg, msg_bits),
                   aggressive /\ msg_bits = 112)

\* the error-correction block of decode_modes_message (decoder.rs 1047-1061)
\* for a record whose CRC failed
Repair(msg, msg_bits, msg_type, crc, fix_errors, aggressive) ==
    IF ~(fix_errors /\ (msg_type = 11 \/ msg_type = 17))
    THEN CrcFields(msg, crc, FALSE, None, None)
    ELSE RepairOne(msg, msg_bits, crc, fix_single_bit_errors(msg, msg_bits),
                   aggressive /\ msg_type = 17)

\* the record's CRC fields with the address aa
WithAddress(r, aa) ==
    [msg |-> r.msg, crc |-> r.crc, crc_ok |-> r.crc_ok, aa |-> aa,
     error_bit |-> r.error_bit, error_bit2 |-> r.error_bit2]

\* DF11/17/18: the address is bytes 1-3 as received, the CRC field is
\* compared with the computed CRC and a mismatch goes to the repair block
DecodeCrcExplicit(msg, msg_bits, msg_type, crc, computed_crc, fix_errors, aggressive) ==
    WithAddress(IF crc = computed_crc
                THEN CrcFields(msg, crc, TRUE, None, None)
                ELSE Repair(msg, msg_bits, msg_type, crc, fix_errors, aggressive),
                << B(msg, 1), B(msg, 2), B(msg, 3) >>)

\* every other DF: the address is the computed CRC XOR the CRC field, and
\* crc_ok stays false
DecodeCrcOverlaid(msg, received_crc, computed_crc) ==
    WithAddress(CrcFields(msg, received_crc, FALSE, None, None),
                AddrBytes(BitXor(computed_crc, received_crc)))

\* the CRC and address part of decode_modes_message (decoder.rs 1036-1080)
DecodeCrc(msg, msg_bits, msg_type, fix_errors, aggressive) ==
    IF IcaoInMessage(msg_type)
    THEN DecodeCrcExplicit(msg, msg_bits, msg_type, extract_crc(msg, msg_bits),
                           modes_checksum(msg, msg_bits), fix_errors, aggressive)
    ELSE DecodeCrcOverlaid(msg, extract_crc(msg, msg_bits), modes_checksum(msg, msg_bits))

\* the fields decode_extended_squitter sets for a DF17 record: the callsign
\* (ME type 1-4) and the CPR fragment (ME type 9-18)
decode_extended_squitter(msg, me_type) ==
    IF me_type \in 1..4
    THEN LET char_indices == CharIndices(msg, 5)
             chars == [n \in 1..8 |->
                          IF char_indices[n] < 64 THEN AIS_CHARSET[char_indices[n] + 1] ELSE "?"]
         IN  [flight |-> Trim(chars), fflag |-> FALSE, raw_latitude |-> 0, raw_longitude |-> 0]
    ELSE IF me_type \in 9..18
    THEN [flight |-> <<>>,
          fflag  |-> BitAnd(B(msg, 6), 4) # 0,
          raw_latitude  |-> Shl(BitAnd(B(msg, 6), 3), 15) + Shl(B(msg, 7), 7) + Shr(B(msg, 8), 1),
          raw_longitude |-> Shl(BitAnd(B(msg, 8), 1), 16) + Shl(B(msg, 9), 8) + B(msg, 10)]
    ELSE [flight |-> <<>>, fflag |-> FALSE, raw_latitude |-> 0, raw_longitude |-> 0]

\* the record of decode_modes_message from the CRC fields c, the DF, the ME
\* type and the extended-squitter fields es
DecodeRecord(c, msg_bits, msg_type, me_type, es) ==
    [msg        |-> c.msg,
     msg_bits   |-> msg_bits,
     msg_type   |-> msg_type,
     crc        |-> c.crc,
     crc_ok     |-> c.crc_ok,
     error_bit  |-> c.error_bit,
     error_bit2 |-> c.error_bit2,
     aa         |-> c.aa,
     me_type    |-> me_type,
     me_sub     |-> BitAnd(B(c.msg, 4), 7),
     flight     |-> es.flight,
     fflag      |-> es.fflag,
     raw_latitude  |-> es.raw_latitude,
     raw_longitude |-> es.raw_longitude,
     bds_data   |-> IF msg_type = 20 \/ msg_type = 21 THEN decode_mb_field(c.msg) ELSE None,
     phase_corrected |-> FALSE,
     signal_level    |-> 0]

\* the part of decode_modes_message after the CRC block: the fields are read
\* from the buffer the CRC block left
DecodeFields(c, msg_bits, msg_type) ==
    DecodeRecord(c, msg_bits, msg_type, Shr(B(c.msg, 4), 3),
                 IF msg_type = 17
                 THEN decode_extended_squitter(c.msg, Shr(B(c.msg, 4), 3))
                 ELSE [flight |-> <<>>, fflag |-> FALSE,
                       raw_latitude |-> 0, raw_longitude |-> 0])

\* decode_modes_message on the padded buffer, with the DF and the length
\* read from its first byte
DecodeTyped(msg, msg_bits, msg_type, fix_errors, aggressive) ==
    DecodeFields(DecodeCrc(msg, msg_bits, msg_type, fix_errors, aggressive),
                 msg_bits, msg_type)

\* decode_modes_message.  The record keeps the fields the tracker and the
\* demodulator read; altitude, squawk and velocity are left out.
decode_modes_message(raw_msg, fix_errors, aggressive) ==
    DecodeTyped(PadMsg(raw_msg), message_len_by_type(Shr(raw_msg[1], 3)),
                Shr(raw_msg[1], 3), fix_errors, aggressive)

\* decode_hex_message after the text has been parsed into its bytes: the
\* frame is handed to decode_modes_message as it is
decode_hex_message(bytes, fix_errors, aggressive) ==
    decode_modes_message(bytes, fix_errors, aggressive)


-----------------------------------------------------------------------------
(* aircraft.rs: the CPR solver.  An f64 is the exact rational               *)
(* [n |-> numerator, d |-> denominator] with d > 0.                         *)

CPR_WINDOW_SECS == 10

\* a % b of Rust: the remainder has the sign of a
RustRem(a, b) == IF a >= 0 THEN a % b ELSE -((-a) % b)

cpr_mod(a, b) ==
    LET res == RustRem(a, b)
    IN  IF res < 0 THEN res + b ELSE res

\* the upper bounds of the latitude bands of cpr_nl, each written as
\* <<integer part, eight decimals>>; band i gives NL = 60 - i
CPR_NL_THRESHOLDS == <<
    <<10, 47047130>>, <<14, 82817437>>, <<18, 18626357>>, <<21, 2939493>>,
    <<23, 54504487>>, <<25, 82924707>>, <<27, 93898710>>, <<29, 91135686>>,
    <<31, 77209708>>, <<33, 53993436>>, <<35, 22899598>>, <<36, 85025108>>,
    <<38, 41241892>>, <<39, 92256684>>, <<41, 38651832>>, <<42, 80914012>>,
    <<44, 19454951>>, <<45, 54626723>>, <<46, 86733252>>, <<48, 16039128>>,
    <<49, 42776439>>, <<50, 67150166>>, <<51, 89342469>>, <<53, 9516153>>,
    <<54, 27817472>>, <<55, 44378444>>, <<56, 59318756>>, <<57, 72747354>>,
    <<58, 84763776>>, <<59, 95459277>>, <<61, 4917774>>, <<62, 13216659>>,
    <<63, 20427479>>, <<64, 26616523>>, <<65, 31845310>>, <<66, 36171008>>,
    <<67, 39646774>>, <<68, 42322022>>, <<69, 44242631>>, <<70, 45451075>>,
    <<71, 45986473>>, <<72, 45884545>>, <<73, 45177442>>, <<74, 43893416>>,
    <<75, 42056257>>, <<76, 39684391>>, <<77, 36789461>>, <<78, 33374083>>,
    <<79, 29428225>>, <<80, 24923213>>, <<81, 19801349>>, <<82, 13956981>>,
    <<83, 7199445>>, <<83, 99173563>>, <<84, 89166191>>, <<85, 75541621>>,
    <<86, 53536998>>, <<87, 0>> >>

\* |q| as <<integer part, first eight decimals>>
AbsDecimal(q) ==
    LET an == Abs(q.n)
        r0 == an % q.d
        r1 == (r0 * 100) % q.d
        r2 == (r1 * 100) % q.d
        r3 == (r2 * 100) % q.d
    IN  << an \div q.d,
           ((r0 * 100) \div q.d) * 1000000 + ((r1 * 100) \div q.d) * 10000
           + ((r2 * 100) \div q.d) * 100 + ((r3 * 100) \div q.d) >>

\* cpr_nl: the first band whose bound exceeds |lat|, else 1
cpr_nl(lat) ==
    LET a    == AbsDecimal(lat)
        hits == {i \in 1..58 :
                    \/ a[1] < CPR_NL_THRESHOLDS[i][1]
                    \/ a[1] = CPR_NL_THRESHOLDS[i][1] /\ a[2] < CPR_NL_THRESHOLDS[i][2]}
    IN  IF hits = {} THEN 1
        ELSE 60 - (CHOOSE i \in hits : \A k \in hits : i <= k)

cpr_n(lat, is_odd) ==
    LET nl == cpr_nl(lat) - (IF is_odd THEN 1 ELSE 0)
    IN  IF nl < 1 THEN 1 ELSE nl

\* (x / 131072.0 + 0.5).floor() as i32
FloorHalfTruncated(x) == x \div 131072

FloorHalf(x) == (2 * x + 131072) \div 262144

\* rlat0 = AIR_DLAT0 * (cpr_mod(j, 60) + lat0 / 131072), AIR_DLAT0 = 360 / 60,
\* less 360 when it is 270 or more
CprRlat0(j, lat0) ==
    LET n == 3 * (cpr_mod(j, 60) * 131072 + lat0)
    IN  IF n >= 270 * 65536 THEN [n |-> n - 360 * 65536, d |-> 65536]
        ELSE [n |-> n, d |-> 65536]

\* rlat1 = AIR_DLAT1 * (cpr_mod(j, 59) + lat1 / 131072), AIR_DLAT1 = 360 / 59,
\* less 360 when it is 270 or more
CprRlat1(j, lat1) ==
    LET n == 45 * (cpr_mod(j, 59) * 131072 + lat1)
    IN  IF n >= 270 * 966656 THEN [n |-> n - 360 * 966656, d |-> 966656]
        ELSE [n |-> n, d |-> 966656]

\* cpr_dlon(rlat, is_odd) * (cpr_mod(m, ni) + lon / 131072), less 360 when
\* it exceeds 180
CprLon(rlat, is_odd, m, ni, lon) ==
    LET d == cpr_n(rlat, is_odd) * 16384
        n == 45 * (cpr_mod(m, ni) * 131072 + lon)
    IN  IF n > 180 * d THEN [n |-> n - 360 * d, d |-> d] ELSE [n |-> n, d |-> d]

\* the intermediate values of decode_cpr for the fragments staged in a
CprSolve(a) ==
    LET lat0  == a.even_cprlat
        lat1  == a.odd_cprlat
        lon0  == a.even_cprlon
        lon1  == a.odd_cprlon
        j     == FloorHalf(59 * lat0 - 60 * lat1)
        rlat0 == CprRlat0(j, lat0)
        rlat1 == CprRlat1(j, lat1)
    IN  [rlat0 |-> rlat0, rlat1 |-> rlat1,
         nl0 |-> cpr_nl(rlat0), nl1 |-> cpr_nl(rlat1)]

\* Instant x is later than Instant y
InstantAfter(x, y) == x[1] > y[1] \/ (x[1] = y[1] /\ x[2] > y[2])

\* whether decode_cpr gets past the NL comparison and commits a position
CprCommits(a) == CprSolve(a).nl0 = CprSolve(a).nl1

\* decode_cpr without the comparison of the two NL values
DecodeCprNoNlCheck(a) ==
    LET s    == CprSolve(a)
        lon0 == a.even_cprlon
        lon1 == a.odd_cprlon
    IN  IF InstantAfter(a.even_cprtime, a.odd_cprtime)
        THEN LET ni == cpr_n(s.rlat0, FALSE)
                 m  == FloorHalf(lon0 * (s.nl0 - 1) - lon1 * s.nl0)
             IN  [a EXCEPT !.lon = CprLon(s.rlat0, FALSE, m, ni, lon0), !.lat = s.rlat0]
        ELSE LET ni == cpr_n(s.rlat1, TRUE)
                 m  == FloorHalf(lon0 * (s.nl1 - 1) - lon1 * s.nl1)
             IN  [a EXCEPT !.lon = CprLon(s.rlat1, TRUE, m, ni, lon1), !.lat = s.rlat1]

\* decode_cpr on the Aircraft record a
decode_cpr(a) ==
    LET s    == CprSolve(a)
        lon0 == a.even_cprlon
        lon1 == a.odd_cprlon
    IN  IF s.nl0 # s.nl1 THEN a
        ELSE IF InstantAfter(a.even_cprtime, a.odd_cprtime)
        THEN LET ni == cpr_n(s.rlat0, FALSE)
                 m  == FloorHalf(lon0 * (s.nl0 - 1) - lon1 * s.nl0)
             IN  [a EXCEPT !.lon = CprLon(s.rlat0, FALSE, m, ni, lon0), !.lat = s.rlat0]
        ELSE LET ni == cpr_n(s.rlat1, TRUE)
                 m  == FloorHalf(lon0 * (s.nl1 - 1) - lon1 * s.nl1)
             IN  [a EXCEPT !.lon = CprLon(s.rlat1, TRUE, m, ni, lon1), !.lat = s.rlat1]


-----------------------------------------------------------------------------
(* aircraft.rs: the aircraft store.  The clock counts whole seconds; the    *)
(* two CPR Instants are <<second, order of the read>>, since a later read   *)
(* of the monotonic clock is later even within one second.                  *)

EmptyStore == [a \in {} |-> 0]

\* Aircraft::new(addr) at clock reading t
NewAircraft(addr, t) ==
    [addr |-> addr, flight |-> <<>>, seen |-> t, messages |-> 0,
     odd_cprlat |-> 0, odd_cprlon |-> 0, odd_cprtime |-> <<t, 0>>,
     even_cprlat |-> 0, even_cprlon |-> 0, even_cprtime |-> <<t, 0>>,
     lat |-> [n |-> 0, d |-> 1], lon |-> [n |-> 0, d |-> 1],
     signal_level |-> 0, phase_corrections |-> 0]

\* time_diff of update_from_message, in whole seconds
CprTimeDiff(a) ==
    IF InstantAfter(a.even_cprtime, a.odd_cprtime)
    THEN a.even_cprtime[1] - a.odd_cprtime[1]
    ELSE a.odd_cprtime[1] - a.even_cprtime[1]

\* update_from_bds
update_from_bds(a, bds) ==
    IF bds.tag = "AircraftIdentification" /\ a.flight = <<>>
    THEN [a EXCEPT !.flight = bds.callsign]
    ELSE a

\* the head of update_from_message: entry().or_insert_with, seen, messages,
\* signal level and phase corrections
TouchAircraft(store, mm, t) ==
    LET addr == icao_address(mm)
        a0   == IF addr \in DOMAIN store THEN store[addr] ELSE NewAircraft(addr, t)
    IN  [a0 EXCEPT
           !.seen = t,
           !.messages = @ + 1,
           !.signal_level =
               IF mm.signal_level > 0
               THEN (IF @ = 0 THEN mm.signal_level
                     ELSE ((@ * 7 + mm.signal_level) \div 8) % 65536)
               ELSE @,
           !.phase_corrections = IF mm.phase_corrected THEN @ + 1 ELSE @]

\* the airborne-position arm: the fragment is staged under its parity
StageCpr(a, mm, t) ==
    IF mm.fflag
    THEN [a EXCEPT !.odd_cprlat = mm.raw_latitude, !.odd_cprlon = mm.raw_longitude,
                   !.odd_cprtime = <<t, a.messages>>]
    ELSE [a EXCEPT !.even_cprlat = mm.raw_latitude, !.even_cprlon = mm.raw_longitude,
                   !.even_cprtime = <<t, a.messages>>]

IsAirbornePosition(mm) == mm.msg_type = 17 /\ mm.me_type >= 9 /\ mm.me_type <= 18

\* whether update_from_message(mm) at clock reading t calls decode_cpr
InvokesDecodeCpr(store, mm, t) ==
    /\ IsAirbornePosition(mm)
    /\ CprTimeDiff(StageCpr(TouchAircraft(store, mm, t), mm, t)) <= CPR_WINDOW_SECS

\* the Aircraft record update_from_message(mm) leaves under mm's address
UpdatedAircraft(store, mm, t) ==
    LET a1 == TouchAircraft(store, mm, t)
    IN  IF mm.msg_type \in {20, 21}
        THEN IF mm.bds_data # None THEN update_from_bds(a1, Unwrap(mm.bds_data)) ELSE a1
        ELSE IF mm.msg_type = 17
        THEN IF mm.me_type >= 1 /\ mm.me_type <= 4 THEN [a1 EXCEPT !.flight = mm.flight]
             ELSE IF mm.me_type >= 9 /\ mm.me_type <= 18
             THEN LET a2 == StageCpr(a1, mm, t)
                  IN  IF CprTimeDiff(a2) <= CPR_WINDOW_SECS THEN decode_cpr(a2) ELSE a2
             ELSE a1
        ELSE a1

\* AircraftStore::update_from_message at clock reading t
update_from_message(store, mm, t) ==
    LET addr == icao_address(mm)
    IN  [x \in DOMAIN store \cup {addr} |->
            IF x = addr THEN UpdatedAircraft(store, mm, t) ELSE store[x]]

RemoveStaleKeepAll(store, t, ttl) == store

\* retain with < in place of <=
RemoveStaleStrict(store, t, ttl) ==
    LET kept == {x \in DOMAIN store : t - store[x].seen < ttl}
    IN  [x \in kept |-> store[x]]

\* AircraftStore::remove_stale at clock reading t
remove_stale(store, t, ttl) ==
    LET kept == {x \in DOMAIN store : t - store[x].seen <= ttl}
    IN  [x \in kept |-> store[x]]

\* AircraftStore::new: min_messages defaults to 2
DefaultMinMessages == 2

\* AircraftStore::all: the addresses of the aircraft the iterator yields
all(store, min_messages) == {x \in DOMAIN store : store[x].messages >= min_messages}

\* AircraftStore::to_json: the addresses of the aircraft the array lists
to_json(store) == {x \in DOMAIN store : ~(store[x].lat.n = 0 /\ store[x].lon.n = 0)}


-----------------------------------------------------------------------------
(* Frames fed to the model *)

\* DF17 identification, address 4840D6, valid CRC (8D4840D6202CC371C32CE0576098)
FrameIdent == <<141, 72, 64, 214, 32, 44, 195, 113, 195, 44, 224, 87, 96, 152>>

\* DF17 airborne position, even, address 40621D, raw_lat 93000 raw_lon 51372
FrameEven == <<141, 64, 98, 29, 88, 195, 130, 214, 144, 200, 172, 40, 99, 167>>

\* DF17 airborne position, odd, address 40621D, raw_lat 74158 raw_lon 50194
FrameOdd == <<141, 64, 98, 29, 88, 195, 134, 67, 92, 196, 18, 105, 42, 214>>

\* DF11 all-call reply, address 4840D6, valid CRC
FrameDF11 == <<93, 72, 64, 214, 248, 116, 15>>

\* DF18 (a short frame by message_len_by_type), address 4840D6, valid CRC
FrameDF18 == <<144, 72, 64, 214, 34, 223, 81>>

\* DF4 whose CRC field is overlaid with address 4840D6
FrameDF4 == <<32, 0, 15, 31, 109, 42, 153>>

\* DF4 of the decoder test (20000f1f684a6c), recovered address 4D2023
FrameDF4Unknown == <<32, 0, 15, 31, 104, 74, 108>>

\* DF5 of the decoder test (280010248c796b)
FrameDF5 == <<40, 0, 16, 36, 140, 121, 107>>

\* DF0 overlaid with address 40621D
FrameDF0 == <<2, 225, 151, 16, 12, 196, 80>>

\* DF16 overlaid with address 4840D6
FrameDF16 == <<128, 225, 151, 16, 0, 0, 0, 0, 0, 0, 0, 146, 150, 204>>

\* DF20 with MB = 10 00 00 00 00 00 00, overlaid with address 4840D6
FrameDF20Bds10 == <<160, 0, 15, 31, 16, 0, 0, 0, 0, 0, 0, 232, 223, 1>>

\* DF21 with MB = 20 15 10 82 28 20 00, overlaid with address 4840D6
FrameDF21Bds20 == <<168, 0, 16, 36, 32, 21, 16, 130, 40, 32, 0, 97, 45, 188>>

\* DF20 with an all-zero MB field, overlaid with address 40621D
FrameDF20Zero == <<160, 0, 15, 31, 0, 0, 0, 0, 0, 0, 0, 216, 238, 233>>

\* DF20 with MB = 80 00 00 00 00 00 00, overlaid with address 4840D6
FrameDF20Bds40 == <<160, 0, 15, 31, 128, 0, 0, 0, 0, 0, 0, 239, 161, 51>>

\* DF20 with MB = 00 10 00 00 08 1F 00, overlaid with address 4840D6
FrameDF20Bds60 == <<160, 0, 15, 31, 0, 16, 0, 0, 8, 31, 0, 169, 59, 194>>

\* DF20 with MB = 01 00 00 00 00 1F 00, overlaid with address 4840D6
FrameDF20Bds30 == <<160, 0, 15, 31, 1, 0, 0, 0, 0, 31, 0, 182, 34, 85>>

\* DF24 (no parser of its own), overlaid with address 4840D6
FrameDF24 == <<192, 0, 15, 31, 19, 241, 22>>

\* a valid 112-bit code word whose first byte reads DF1; with bit 0 flipped
\* it is received as a DF17 frame with a single-bit error in the DF field
FrameDF1Long == <<13, 72, 64, 214, 32, 44, 195, 113, 195, 44, 224, 110, 85, 114>>

ValidFrames ==
    { FrameIdent, FrameEven, FrameOdd, FrameDF11, FrameDF18, FrameDF4, FrameDF4Unknown,
      FrameDF5, FrameDF0, FrameDF16, FrameDF20Bds10, FrameDF21Bds20, FrameDF20Zero,
      FrameDF20Bds40, FrameDF20Bds60, FrameDF20Bds30, FrameDF24 }

\* frames damaged on the air: one or two flipped bits
DamagedFrames ==
    { FlipBit(FrameIdent, 23),                  \* an address bit of a DF17
      FlipBit(FrameIdent, 45),                  \* a payload bit of a DF17
      FlipBit(FlipBit(FrameIdent, 5), 60),      \* two bits of a DF17
      FlipBit(FrameEven, 9),                    \* an address bit of a DF17
      FlipBit(FrameDF11, 20),                   \* an address bit of a DF11
      FlipBit(FlipBit(FrameDF11, 20), 30),      \* two bits of a DF11
      FlipBit(FrameDF18, 20),                   \* an address bit of a DF18
      FlipBit(FrameIdent, 4),                   \* a DF bit: the frame reads DF16
      FlipBit(FrameDF1Long, 0) }                \* a DF bit: the frame reads DF17

DecodeInputs == ValidFrames \cup DamagedFrames

DefaultConfig == [fix_errors |-> TRUE, aggressive |-> FALSE, check_crc |-> TRUE]

\* file replay without --loop is running and nothing has been sent
ChannelIdle ==
    /\ loop_file = FALSE
    /\ producer = "reading"
    /\ consumer = "running"
    /\ sent_log = <<>>
    /\ applied_log = <<>>

\* no task is at the lock
LeaseIdle ==
    /\ task_pos = <<>>
    /\ lease = <<>>

\* process_file has not been entered
WindowIdle ==
    /\ data = <<>>
    /\ stream = <<>>
    /\ window = <<>>

\* SignalProcessor::new
NewSignalProcessor == [noise_floor |-> 100, noise_samples |-> <<>>]

\* no detector has been called
ScanIdle ==
    /\ scenario = [detector |-> "none", input |-> "none"]
    /\ mag = <<>>
    /\ win_base = 0
    /\ cursor = 0
    /\ scan = "idle"
    /\ iter = None
    /\ noise = NewSignalProcessor
    /\ examined = {}

\* the variables a specification of a pure function leaves alone
PipelineIdle ==
    /\ cfg = DefaultConfig
    /\ known_icaos = {}
    /\ validated = {}
    /\ chan = <<>>
    /\ aircraft = EmptyStore
    /\ history = EmptyStore
    /\ now = 0
    /\ prune_due = FALSE
    /\ applied = None
    /\ solved = None
    /\ nsteps = 0
    /\ ChannelIdle
    /\ LeaseIdle
    /\ WindowIdle
    /\ ScanIdle

PipelineVars == <<cfg, known_icaos, validated, chan, aircraft, history, now, prune_due, applied, solved,
                  nsteps, ChannelVars, LeaseVars, WindowVars, ScanVars>>

-----------------------------------------------------------------------------
(* Specification SpecCrc: fix_single_bit_errors on a valid 112-bit frame    *)
(* with one bit flipped                                                     *)

CrcFrames == {FrameIdent, FrameEven}

InitCrc ==
    /\ fn_in \in {[F |-> F, k |-> k] : F \in CrcFrames, k \in 0..(MODES_LONG_MSG_BITS - 1)}
    /\ fn_out = None
    /\ PipelineIdle

FixSingle ==
    /\ fn_out = None
    /\ fn_out' = Some(fix_single_bit_errors(FlipBit(fn_in.F, fn_in.k), MODES_LONG_MSG_BITS))
    /\ UNCHANGED <<fn_in, PipelineVars>>

NextCrc == FixSingle

SpecCrc == InitCrc /\ [][NextCrc]_vars

\* C8: for a 112-bit frame F whose checksum equals its CRC field and any bit
\* position k, fix_single_bit_errors on F with bit k flipped returns Some(k)
\* and leaves the buffer equal to F.
SingleBitRepairRoundTrip ==
    fn_out # None =>
        /\ extract_crc(fn_in.F, MODES_LONG_MSG_BITS) = modes_checksum(fn_in.F, MODES_LONG_MSG_BITS)
        /\ Unwrap(fn_out).bit = Some(fn_in.k)
        /\ Unwrap(fn_out).msg = fn_in.F

\* bit 23 of 8D4840D6202CC371C32CE0576098 has been flipped and repaired
WitnessBit23Repaired ==
    /\ fn_out # None
    /\ fn_in.F = FrameIdent
    /\ fn_in.k = 23
    /\ Unwrap(fn_out).bit = Some(23)

-----------------------------------------------------------------------------
(* Specification SpecDecode: decode_modes_message on one frame under one    *)
(* error-correction policy                                                  *)

InitDecode ==
    /\ fn_in \in {[raw |-> f, fix_errors |-> fx, aggressive |-> ag] :
                     f \in DecodeInputs, fx \in BOOLEAN, ag \in BOOLEAN}
    /\ fn_out = None
    /\ PipelineIdle

Decode ==
    /\ fn_out = None
    /\ fn_out' = Some(decode_modes_message(fn_in.raw, fn_in.fix_errors, fn_in.aggressive))
    /\ UNCHANGED <<fn_in, PipelineVars>>

NextDecode == Decode

SpecDecode == InitDecode /\ [][NextDecode]_vars

\* whether the input frame passes the CRC comparison as received
InputCrcOk(raw) ==
    LET p    == PadMsg(raw)
        bits == message_len_by_type(Shr(B(p, 0), 3))
    IN  extract_crc(p, bits) = modes_checksum(p, bits)

\* C9: decode_modes_message changes frame bytes only by single-bit repair of
\* a DF11 or DF17 whose CRC failed while fix_errors is set, or by two-bit
\* repair of a DF17 when aggressive is set and single-bit repair found
\* nothing; for every other DF the stored bytes are the input bytes and both
\* error bits are none; a repaired record has crc_ok and carries the
\* repaired bit position(s).
RepairOnlyWherePermitted ==
    fn_out # None =>
        LET mm   == Unwrap(fn_out)
            p    == PadMsg(fn_in.raw)
            df   == Shr(B(p, 0), 3)
            bits == message_len_by_type(df)
        IN  /\ (mm.msg # p \/ mm.error_bit # None \/ mm.error_bit2 # None)
                  => /\ df \in {11, 17}
                     /\ fn_in.fix_errors
                     /\ ~InputCrcOk(fn_in.raw)
                     /\ mm.error_bit # None
            /\ mm.error_bit2 # None
                  => /\ df = 17
                     /\ fn_in.aggressive
                     /\ fix_single_bit_errors(p, bits).bit = None
            /\ mm.error_bit # None
                  => /\ mm.crc_ok
                     /\ extract_crc(mm.msg, bits) = modes_checksum(mm.msg, bits)
                     /\ mm.msg = IF mm.error_bit2 = None
                                 THEN FlipBit(p, Unwrap(mm.error_bit))
                                 ELSE FlipBit(FlipBit(p, Unwrap(mm.error_bit)),
                                              Unwrap(mm.error_bit2))
            /\ df \notin {11, 17}
                  => mm.msg = p /\ mm.error_bit = None /\ mm.error_bit2 = None

\* a DF17 has been repaired in two bits, and a damaged DF18 has been left alone
WitnessTwoBitRepair ==
    /\ fn_out # None
    /\ fn_in.raw = FlipBit(FlipBit(FrameIdent, 5), 60)
    /\ Unwrap(fn_out).error_bit = Some(5)
    /\ Unwrap(fn_out).error_bit2 = Some(60)
    /\ Unwrap(fn_out).msg = FrameIdent

\* the MB field (bytes 4..10) of a long frame
MbField(raw) == SubSeq(PadMsg(raw), 5, 11)

\* C10: a DF20/DF21 frame whose MB field is 10 00 00 00 00 00 00 is
\* identified as DataLinkCapability (BDS 1,0).
Bds10IdentifiedAsDataLinkCapability ==
    (/\ fn_out # None
     /\ Unwrap(fn_out).msg_type \in {20, 21}
     /\ MbField(fn_in.raw) = <<16, 0, 0, 0, 0, 0, 0>>)
        => /\ Unwrap(fn_out).bds_data # None
           /\ Unwrap(Unwrap(fn_out).bds_data).tag = "DataLinkCapability"

\* the probes of decode_mb_field in the order BDS 2,0, 4,0, 5,0, 6,0, 3,0, 1,0
BdsProbes(mb) ==
    << try_decode_bds_20(mb), try_decode_bds_40(mb), try_decode_bds_50(mb),
       try_decode_bds_60(mb), try_decode_bds_30(mb), try_decode_bds_10(mb) >>

\* the positions of the probes whose structural checks pass
BdsPassing(mb) == {n \in 1..6 : BdsProbes(mb)[n] # None}

\* C12: for every MB field of a DF20/DF21 frame the BDS record returned is
\* the one of the first register, in the order 2,0, 4,0, 5,0, 6,0, 3,0, 1,0,
\* whose structural checks pass; when none passes the record is Unknown and
\* carries the 7 raw MB bytes unchanged.
FirstPassingRegisterWins ==
    (fn_out # None /\ Unwrap(fn_out).msg_type \in {20, 21}) =>
        LET mb  == MbField(fn_in.raw)
            rec == Unwrap(fn_out).bds_data
        IN  /\ rec # None
            /\ \A n \in BdsPassing(mb) :
                   (\A k \in 1..(n - 1) : k \notin BdsPassing(mb))
                       => rec = BdsProbes(mb)[n]
            /\ BdsPassing(mb) = {}
                   => /\ Unwrap(rec).tag = "Unknown"
                      /\ Unwrap(rec).data = mb
                      /\ Len(Unwrap(rec).data) = 7

\* a DF20 whose MB field fails BDS 2,0, 4,0 and 5,0 and is taken by BDS 6,0
WitnessFellThroughToBds60 ==
    /\ fn_out # None
    /\ Unwrap(fn_out).msg_type = 20
    /\ BdsPassing(MbField(fn_in.raw)) \cap (1..4) = {4}
    /\ Unwrap(Unwrap(fn_out).bds_data).tag = "HeadingAndSpeedReport"

\* C11 as stated: a DF20/DF21 frame whose MB field is 20 15 10 82 28 20 00
\* is identified by decode_mb_field as AircraftIdentification (BDS 2,0).
Bds20IdentificationFrameIdentified ==
    (fn_out # None /\ Unwrap(fn_out).msg_type \in {20, 21}
        /\ MbField(fn_in.raw) = <<32, 21, 16, 130, 40, 32, 0>>)
        => /\ Unwrap(fn_out).bds_data # None
           /\ Unwrap(Unwrap(fn_out).bds_data).tag = "AircraftIdentification"
-----------------------------------------------------------------------------
(* Specification SpecStore: the aircraft store under update_from_message,   *)
(* the passage of time and the cleanup task                                 *)

MaxUpdates == 3
MaxTime == 12
TtlSecs == 3

StoreFrames == {FrameEven, FrameOdd, FrameIdent, FrameDF4, FrameDF21Bds20}

\* the records of these frames as the demodulator hands them over
StoreMessages ==
    {[decode_modes_message(f, TRUE, FALSE) EXCEPT !.crc_ok = TRUE] : f \in StoreFrames}

\* one call of update_from_message(mm) under the write lock, with the
\* bookkeeping of what the call did
StoreUpdate(mm) ==
    LET addr   == icao_address(mm)
        staged == StageCpr(TouchAircraft(aircraft, mm, now), mm, now)
        inv    == InvokesDecodeCpr(aircraft, mm, now)
        com    == inv /\ CprCommits(staged)
        h      == IF addr \in DOMAIN aircraft THEN history[addr]
                  ELSE [odd |-> FALSE, even |-> FALSE, committed |-> FALSE]
        h1     == [odd       |-> h.odd \/ (IsAirbornePosition(mm) /\ mm.fflag),
                   even      |-> h.even \/ (IsAirbornePosition(mm) /\ ~mm.fflag),
                   committed |-> h.committed \/ com]
    IN  /\ aircraft' = update_from_message(aircraft, mm, now)
        /\ history' = [x \in DOMAIN aircraft \cup {addr} |->
                          IF x = addr THEN h1 ELSE history[x]]
        /\ applied' = Some(mm)
        /\ solved' = Some([addr |-> addr, invoked |-> inv, committed |-> com])

InitStore ==
    /\ cfg = DefaultConfig
    /\ known_icaos = {}
    /\ validated = {}
    /\ chan = <<>>
    /\ aircraft = EmptyStore
    /\ history = EmptyStore
    /\ now = 0
    /\ prune_due = FALSE
    /\ applied = None
    /\ solved = None
    /\ nsteps = 0
    /\ fn_in = None
    /\ fn_out = None
    /\ ChannelIdle
    /\ LeaseIdle
    /\ WindowIdle
    /\ ScanIdle

UpdateFromMessage ==
    /\ nsteps < MaxUpdates
    /\ \E mm \in StoreMessages : StoreUpdate(mm)
    /\ nsteps' = nsteps + 1
    /\ UNCHANGED <<cfg, known_icaos, validated, chan, now, prune_due, fn_in, fn_out>>
    /\ UNCHANGED <<ChannelVars, LeaseVars, WindowVars, ScanVars>>

\* a second passes; the cleanup task's interval fires
Tick ==
    /\ now < MaxTime
    /\ now' = now + 1
    /\ prune_due' = TRUE
    /\ UNCHANGED <<cfg, known_icaos, validated, chan, aircraft, history, applied, solved, nsteps,
                   fn_in, fn_out, ChannelVars, LeaseVars, WindowVars, ScanVars>>

\* the cleanup task: store.write().await.remove_stale()
RemoveStale ==
    /\ prune_due
    /\ aircraft' = remove_stale(aircraft, now, TtlSecs)
    /\ history' = [x \in DOMAIN aircraft' |-> history[x]]
    /\ prune_due' = FALSE
    /\ UNCHANGED <<cfg, known_icaos, validated, chan, now, applied, solved, nsteps, fn_in, fn_out>>
    /\ UNCHANGED <<ChannelVars, LeaseVars, WindowVars, ScanVars>>

NextStore == UpdateFromMessage \/ Tick \/ RemoveStale

SpecStore == InitStore /\ [][NextStore]_vars

\* C4: every Aircraft in the map has messages > 0 in every state a reader
\* can observe, and now - seen <= ttl whenever the cleanup task has run
\* since the clock last advanced.
TrackedAircraftCountedAndFreshAfterCleanup ==
    \A x \in DOMAIN aircraft :
        /\ aircraft[x].messages > 0
        /\ ~prune_due => now - aircraft[x].seen <= TtlSecs

\* an aircraft that was heard, aged to the ttl and survived a cleanup run
WitnessSurvivedCleanupAtTtl ==
    /\ ~prune_due
    /\ \E x \in DOMAIN aircraft : now - aircraft[x].seen = TtlSecs

\* C4 as stated: messages > 0 and now - seen <= ttl in every observable state
TrackedAircraftAlwaysFresh ==
    \A x \in DOMAIN aircraft :
        /\ aircraft[x].messages > 0
        /\ now - aircraft[x].seen <= TtlSecs

\* C13: remove_stale at time now removes every aircraft with now - seen > ttl
\* and none with now - seen <= ttl, leaving the remaining records unchanged;
\* an aircraft pruned at now = seen + ttl + 1 s no longer appears in all().
RemoveStaleRemovesExactlyTheStale ==
    [][(prune_due /\ ~prune_due') =>
          /\ \A x \in DOMAIN aircraft :
                 /\ now - aircraft[x].seen > TtlSecs => x \notin DOMAIN aircraft'
                 /\ now - aircraft[x].seen <= TtlSecs
                        => x \in DOMAIN aircraft' /\ aircraft'[x] = aircraft[x]
          /\ DOMAIN aircraft' \subseteq DOMAIN aircraft
          /\ \A x \in DOMAIN aircraft :
                 now = aircraft[x].seen + TtlSecs + 1
                     => x \notin all(aircraft', DefaultMinMessages)]_vars

\* the only aircraft heard was heard at second 0 and the cleanup run of
\* second ttl + 1 has removed it
WitnessPrunedOneSecondPastTtl ==
    /\ nsteps = 1
    /\ applied # None
    /\ now = TtlSecs + 1
    /\ ~prune_due
    /\ DOMAIN aircraft = {}

\* C14 as stated: every aircraft exposed by the terminal list built from
\* all() or by the map JSON built by to_json() has messages >= min_messages;
\* an aircraft with fewer messages is exposed in neither view.
ExposedAircraftMeetMessageThreshold ==
    \A x \in all(aircraft, DefaultMinMessages) \cup to_json(aircraft) :
        aircraft[x].messages >= DefaultMinMessages

\* C5 as stated: decode_cpr is invoked for an aircraft only when an odd and
\* an even airborne-position fragment have both been received for it and
\* their reception times differ by at most 10 s.
SolveOnlyWithBothParitiesReceived ==
    (solved # None /\ Unwrap(solved).invoked /\ Unwrap(solved).addr \in DOMAIN aircraft)
        => /\ history[Unwrap(solved).addr].odd
           /\ history[Unwrap(solved).addr].even
           /\ CprTimeDiff(aircraft[Unwrap(solved).addr]) <= CPR_WINDOW_SECS

\* C6 as stated: (lat, lon) stays (0, 0) until a solve commits, and after a
\* committed solve lon is in (-180, 180] and lat in (-90, 90].
PositionZeroUntilCommitThenInRange ==
    \A x \in DOMAIN aircraft :
        IF history[x].committed
        THEN /\ aircraft[x].lon.n > -180 * aircraft[x].lon.d
             /\ aircraft[x].lon.n <= 180 * aircraft[x].lon.d
             /\ aircraft[x].lat.n > -90 * aircraft[x].lat.d
             /\ aircraft[x].lat.n <= 90 * aircraft[x].lat.d
        ELSE aircraft[x].lat.n = 0 /\ aircraft[x].lon.n = 0

\* the fragments of C7 are staged, the even one newer, within the window
ReferencePairStaged(a) ==
    /\ a.even_cprlat = 93000 /\ a.even_cprlon = 51372
    /\ a.odd_cprlat = 74158 /\ a.odd_cprlon = 50194
    /\ InstantAfter(a.even_cprtime, a.odd_cprtime)
    /\ CprTimeDiff(a) <= CPR_WINDOW_SECS

\* C7: with even (93000, 51372) and odd (74158, 50194) staged, the even one
\* newer and within the window, the committed latitude is strictly inside
\* (51.0, 52.5) and the committed longitude strictly inside (3.5, 4.5).
ReferencePairSolvesNearFourEast ==
    \A x \in DOMAIN aircraft :
        ReferencePairStaged(aircraft[x])
            => /\ aircraft[x].lat.n > 51 * aircraft[x].lat.d
               /\ 2 * aircraft[x].lat.n < 105 * aircraft[x].lat.d
               /\ 2 * aircraft[x].lon.n > 7 * aircraft[x].lon.d
               /\ 2 * aircraft[x].lon.n < 9 * aircraft[x].lon.d

\* the reference pair has been received odd first, then even, and solved
WitnessReferencePairSolved ==
    \E x \in DOMAIN aircraft :
        /\ ReferencePairStaged(aircraft[x])
        /\ history[x].committed
        /\ solved # None /\ Unwrap(solved).addr = x /\ Unwrap(solved).committed

\* C7 as stated: latitude strictly inside (51.0, 52.5) and longitude
\* strictly inside (-1.0, 1.5)
ReferencePairSolvesNearGreenwich ==
    \A x \in DOMAIN aircraft :
        ReferencePairStaged(aircraft[x])
            => /\ aircraft[x].lat.n > 51 * aircraft[x].lat.d
               /\ 2 * aircraft[x].lat.n < 105 * aircraft[x].lat.d
               /\ aircraft[x].lon.n > -1 * aircraft[x].lon.d
               /\ 2 * aircraft[x].lon.n < 3 * aircraft[x].lon.d

-----------------------------------------------------------------------------
(* Specification Spec: the demodulator's dispatch, the frame channel, its   *)
(* consumer process_messages and the raw-input network client, all feeding  *)
(* one store.  The clock is held: SpecStore covers the passage of time.     *)

MaxSteps == 3
ChanCap == 2

Configs ==
    { DefaultConfig,
      [fix_errors |-> FALSE, aggressive |-> FALSE, check_crc |-> FALSE],
      [fix_errors |-> TRUE, aggressive |-> TRUE, check_crc |-> TRUE] }

\* the 112 sliced bits the demodulator packs, cut to the length of their DF
DemodFrames ==
    { FrameIdent, FlipBit(FrameIdent, 23), FlipBit(FlipBit(FrameIdent, 5), 60),
      FrameDF11, FrameDF4, FrameDF4Unknown, FrameDF24 }

\* the frames a raw-input client sends as hex lines
NetFrames == { FrameEven, FlipBit(FlipBit(FrameIdent, 5), 60), FrameDF4 }

\* decode_modes_message on every frame under every policy, computed once
DecodeTable ==
    {<<c, f, decode_modes_message(f, c.fix_errors, c.aggressive)>> :
        c \in Configs, f \in DemodFrames \cup NetFrames}

\* the record decode_modes_message returns for frame f under configuration c
Decoded(c, f) == (CHOOSE e \in DecodeTable : e[1] = c /\ e[2] = f)[3]

\* the address in bytes 1-3 of the stored buffer
StoredAddress(mm) == Shl(B(mm.msg, 1), 16) + Shl(B(mm.msg, 2), 8) + B(mm.msg, 3)

DispatchNoKnownCheck(mm, known) ==
    IF mm.crc_ok /\ IcaoInMessage(mm.msg_type)
    THEN [known |-> known \cup {icao_address(mm)}, sent |-> Some(mm)]
    ELSE IF ~IcaoInMessage(mm.msg_type)
    THEN [known |-> known, sent |-> Some([mm EXCEPT !.crc_ok = TRUE])]
    ELSE [known |-> known, sent |-> None]

\* the tail of try_decode_message and of detect_modes_with_icao_tracking:
\* the known set after the frame and the record sent, if any
Dispatch(mm, known) ==
    IF mm.crc_ok /\ IcaoInMessage(mm.msg_type)
    THEN [known |-> known \cup {icao_address(mm)}, sent |-> Some(mm)]
    ELSE IF ~IcaoInMessage(mm.msg_type)
    THEN IF icao_address(mm) \in known
         THEN [known |-> known, sent |-> Some([mm EXCEPT !.crc_ok = TRUE])]
         ELSE [known |-> known, sent |-> None]
    ELSE [known |-> known, sent |-> None]

AdmitAll(mm, check_crc) == TRUE

\* the gate in front of update_from_message in both consumers
Admit(mm, check_crc) == mm.crc_ok \/ ~check_crc

\* the record try_decode_message builds from the sliced frame f
DemodRecord(f, pc, sl) ==
    [Decoded(cfg, f) EXCEPT !.phase_corrected = pc, !.signal_level = sl]

Init ==
    /\ cfg \in Configs
    /\ known_icaos = {}
    /\ validated = {}
    /\ chan = <<>>
    /\ aircraft = EmptyStore
    /\ history = EmptyStore
    /\ now = 0
    /\ prune_due = FALSE
    /\ applied = None
    /\ solved = None
    /\ nsteps = 0
    /\ fn_in = None
    /\ fn_out = None
    /\ ChannelIdle
    /\ LeaseIdle
    /\ WindowIdle
    /\ ScanIdle

\* a send that returns at once whatever the channel holds
SendNeverBlocks(sent, q, rx) == TRUE

\* tx.send(mm) can return: nothing is sent, or the receiver is gone (the send
\* fails at once), or the channel has room; otherwise the sender blocks
SendReady(sent, q, rx) == sent = None \/ rx = "exited" \/ Len(q) < ChanCap

\* a channel that hands over the newest record first
AfterSendPrepends(sent, q, rx) ==
    IF sent # None /\ rx # "exited" THEN <<Unwrap(sent)>> \o q ELSE q

\* the channel after tx.send: a send to a dropped receiver fails and the
\* record is discarded with the error (let _ = tx.send(..))
AfterSend(sent, q, rx) ==
    IF sent # None /\ rx # "exited" THEN Append(q, Unwrap(sent)) ELSE q

\* try_decode_message on the sliced frame f; send blocks while the channel is
\* full. The count of inputs is capped while the consumer runs.
TryDecodeMessage(f, pc) ==
    LET mm == DemodRecord(f, pc, IF pc THEN 80 ELSE 200)
        d  == Dispatch(mm, known_icaos)
    IN  /\ producer \in {"reading", "rewound"}
        /\ consumer # "exited" => nsteps < MaxSteps
        /\ SendReady(d.sent, chan, consumer)
        /\ nsteps' = IF consumer # "exited" THEN nsteps + 1 ELSE nsteps
        /\ known_icaos' = d.known
        /\ validated' = IF mm.crc_ok /\ IcaoInMessage(mm.msg_type)
                        THEN validated \cup {StoredAddress(mm)} ELSE validated
        /\ chan' = AfterSend(d.sent, chan, consumer)
        /\ sent_log' = IF d.sent # None /\ consumer # "exited"
                       THEN Append(sent_log, Unwrap(d.sent)) ELSE sent_log
        /\ producer' = "reading"
        /\ UNCHANGED <<cfg, aircraft, history, now, prune_due, applied, solved, fn_in, fn_out>>
        /\ UNCHANGED <<loop_file, consumer, applied_log, LeaseVars, WindowVars, ScanVars>>

\* one turn of the loop of process_messages
ProcessMessages ==
    /\ consumer = "running"
    /\ chan # <<>>
    /\ chan' = Tail(chan)
    /\ IF Admit(Head(chan), cfg.check_crc)
       THEN /\ StoreUpdate(Head(chan))
            /\ applied_log' = Append(applied_log, Head(chan))
       ELSE UNCHANGED <<aircraft, history, applied, solved, applied_log>>
    /\ UNCHANGED <<cfg, known_icaos, validated, now, prune_due, nsteps, fn_in, fn_out>>
    /\ UNCHANGED <<loop_file, producer, consumer, sent_log, LeaseVars, WindowVars, ScanVars>>

\* process_file reads 0 bytes: with --loop the file is reopened, otherwise the
\* loop breaks, process_file returns and msg_tx is dropped
EndOfFile ==
    /\ producer \in {"reading", "rewound"}
    /\ producer' = IF loop_file THEN "rewound" ELSE "done"
    /\ UNCHANGED <<cfg, known_icaos, validated, chan, aircraft, history, now, prune_due, applied,
                   solved, nsteps, fn_in, fn_out>>
    /\ UNCHANGED <<loop_file, consumer, sent_log, applied_log, LeaseVars, WindowVars, ScanVars>>

\* process_messages ends: rx.recv() returns Err on the empty channel whose
\* sender is dropped, or println! panics on a closed stdout after a record
\* was handled. The receiver is dropped with whatever the channel holds.
ProcessMessagesEnds ==
    /\ consumer = "running"
    /\ (chan = <<>> /\ producer \in {"done", "aborting"}) \/ applied_log # <<>>
    /\ consumer' = "exited"
    /\ chan' = <<>>
    /\ UNCHANGED <<cfg, known_icaos, validated, aircraft, history, now, prune_due, applied,
                   solved, nsteps, fn_in, fn_out>>
    /\ UNCHANGED <<loop_file, producer, sent_log, applied_log, LeaseVars, WindowVars, ScanVars>>

\* the worker thread polls the task spawned for process_messages for the
\* first time
ProcessorFirstPoll ==
    /\ consumer = "spawned"
    /\ consumer' = "running"
    /\ UNCHANGED <<cfg, known_icaos, validated, chan, aircraft, history, now, prune_due, applied,
                   solved, nsteps, fn_in, fn_out>>
    /\ UNCHANGED <<loop_file, producer, sent_log, applied_log, LeaseVars, WindowVars, ScanVars>>

\* main after run_demodulation has returned, file replay without
\* --interactive: processor_handle.abort(). A task that was never polled is
\* cancelled and its future dropped, the receiver and what the channel holds
\* with it; a task inside its poll is not interrupted (process_messages has no
\* await point).
AbortProcessor ==
    /\ producer = "done"
    /\ producer' = "aborting"
    /\ consumer' = IF consumer = "spawned" THEN "exited" ELSE consumer
    /\ chan' = IF consumer = "spawned" THEN <<>> ELSE chan
    /\ UNCHANGED <<cfg, known_icaos, validated, aircraft, history, now, prune_due, applied,
                   solved, nsteps, fn_in, fn_out>>
    /\ UNCHANGED <<loop_file, sent_log, applied_log, LeaseVars, WindowVars, ScanVars>>

\* block_on returns and the Runtime is dropped, which joins the worker
\* threads: the process exits once the poll of process_messages is over
ProcessExit ==
    /\ producer = "aborting"
    /\ consumer = "exited"
    /\ producer' = "exited"
    /\ UNCHANGED <<cfg, known_icaos, validated, chan, aircraft, history, now, prune_due, applied,
                   solved, nsteps, fn_in, fn_out>>
    /\ UNCHANGED <<loop_file, consumer, sent_log, applied_log, LeaseVars, WindowVars, ScanVars>>

\* one line read by handle_raw_input_client
HandleRawInputClient(f) ==
    LET mm == Decoded(cfg, f)
    IN  /\ nsteps < MaxSteps
        /\ nsteps' = nsteps + 1
        /\ IF Admit(mm, cfg.check_crc)
           THEN StoreUpdate(mm)
           ELSE UNCHANGED <<aircraft, history, applied, solved>>
        /\ UNCHANGED <<cfg, known_icaos, validated, chan, now, prune_due, fn_in, fn_out>>
        /\ UNCHANGED <<ChannelVars, LeaseVars, WindowVars, ScanVars>>

Next ==
    \/ \E f \in DemodFrames, pc \in BOOLEAN : TryDecodeMessage(f, pc)
    \/ ProcessMessages
    \/ \E f \in NetFrames : HandleRawInputClient(f)

Spec == Init /\ [][Next]_vars

\* extract XOR checksum over the stored bytes of a record
FrameSyndrome(mm) ==
    BitXor(extract_crc(mm.msg, mm.msg_bits), modes_checksum(mm.msg, mm.msg_bits))

\* C1: a frame whose DF is not 11, 17 or 18 is put on the channel only if
\* its recovered address is in the known-address set at that moment, and is
\* then sent with crc_ok = true; if the address is not in the set nothing is
\* sent and the set is unchanged.  No other step sets crc_ok for such a
\* frame: a record of such a DF on the channel or handed to the store has
\* crc_ok = true only with its address in the known set.
AddressInCrcFramesGatedByKnownSet ==
    /\ [](/\ \A i \in 1..Len(chan) :
                ~IcaoInMessage(chan[i].msg_type)
                    => chan[i].crc_ok /\ icao_address(chan[i]) \in known_icaos
          /\ (applied # None /\ ~IcaoInMessage(Unwrap(applied).msg_type)
                /\ Unwrap(applied).crc_ok)
                    => icao_address(Unwrap(applied)) \in known_icaos)
    /\ [][\A f \in DemodFrames, pc \in BOOLEAN :
            (TryDecodeMessage(f, pc) /\ ~IcaoInMessage(Decoded(cfg, f).msg_type))
                => /\ chan' # chan
                        => /\ icao_address(Decoded(cfg, f)) \in known_icaos
                           /\ chan'[Len(chan')].crc_ok
                           /\ chan'[Len(chan')].msg = Decoded(cfg, f).msg
                   /\ icao_address(Decoded(cfg, f)) \notin known_icaos
                        => chan' = chan /\ known_icaos' = known_icaos]_vars

\* a DF4 frame of a known address is on the channel with crc_ok set
WitnessDF4Forwarded ==
    \E i \in 1..Len(chan) :
        /\ chan[i].msg_type = 4
        /\ chan[i].crc_ok
        /\ icao_address(chan[i]) \in known_icaos

\* C2 as stated: decode_modes_message alone returns crc_ok = false for an
\* address-in-CRC frame, and the demodulator accepts such a frame for
\* address A exactly when a CRC-validated DF11/DF17/DF18 frame carrying A
\* was demodulated earlier in the sequence.
AddressInCrcAcceptedIffValidatedEarlier ==
    [][\A f \in DemodFrames, pc \in BOOLEAN :
          (TryDecodeMessage(f, pc) /\ ~IcaoInMessage(Decoded(cfg, f).msg_type))
              => /\ ~Decoded(cfg, f).crc_ok
                 /\ (chan' # chan) <=> (icao_address(Decoded(cfg, f)) \in validated)]_vars

-----------------------------------------------------------------------------
(* Specification SpecChan: file replay through the bounded channel, from    *)
(* the first frame to the end of both tasks                                 *)

ChanFrames == {FrameIdent, FrameDF11, FrameDF4}

InitChan ==
    /\ cfg = DefaultConfig
    /\ known_icaos = {}
    /\ validated = {}
    /\ chan = <<>>
    /\ aircraft = EmptyStore
    /\ history = EmptyStore
    /\ now = 0
    /\ prune_due = FALSE
    /\ applied = None
    /\ solved = None
    /\ nsteps = 0
    /\ fn_in = None
    /\ fn_out = None
    /\ loop_file \in BOOLEAN
    /\ producer = "reading"
    /\ consumer = "running"
    /\ sent_log = <<>>
    /\ applied_log = <<>>
    /\ LeaseIdle
    /\ WindowIdle
    /\ ScanIdle

\* the demodulator finds a frame in the window, at the first attempt
FrameDemodulated == \E f \in ChanFrames : TryDecodeMessage(f, FALSE)

NextChan ==
    \/ FrameDemodulated
    \/ ProcessMessages
    \/ EndOfFile
    \/ ProcessMessagesEnds

SpecChan == InitChan /\ [][NextChan]_vars

\* both threads keep running and the file has an end
FairSpecChan ==
    /\ SpecChan
    /\ WF_vars(FrameDemodulated)
    /\ WF_vars(EndOfFile)
    /\ WF_vars(ProcessMessages)

IsPrefix(a, b) == Len(a) <= Len(b) /\ SubSeq(b, 1, Len(a)) = a

ChannelBoundedBlockingAndDeadlockFree ==
    /\ [](Len(chan) <= ChanCap)
    /\ [][(consumer = "running" /\ Len(chan) = ChanCap) => sent_log' = sent_log]_vars
    /\ [][(consumer = "running" /\ consumer' = "running")
             => \/ chan' = chan
                \/ chan # <<>> /\ chan' = Tail(chan)
                \/ /\ Len(sent_log') = Len(sent_log) + 1
                   /\ chan' = Append(chan, sent_log'[Len(sent_log')])]_vars
    /\ []((consumer = "running" /\ Len(chan) = ChanCap) => ENABLED ProcessMessages)
    /\ []((consumer = "running" /\ Len(chan) < ChanCap /\ producer # "done"
              /\ nsteps < MaxSteps) => ENABLED FrameDemodulated)
    /\ (consumer = "running" /\ Len(chan) = ChanCap)
           ~> (Len(chan) < ChanCap \/ consumer = "exited")

\* the channel is full while the producer has a frame to send
WitnessProducerBlockedOnFullChannel ==
    /\ consumer = "running"
    /\ producer = "reading"
    /\ Len(chan) = ChanCap
    /\ nsteps < MaxSteps
    /\ ~ENABLED TryDecodeMessage(FrameIdent, FALSE)

\* C17 as stated: when process_messages has exited and the channel is
\* closed, the producer terminates.
ProducerTerminatesAfterConsumerExit ==
    (consumer = "exited") ~> (producer = "done")

-----------------------------------------------------------------------------
(* Specification SpecLease: the tasks that share the store's RwLock, each   *)
(* at a position of its loop. The store's contents are left alone.          *)

\* the connections served by handle_raw_input_client, one task each
RawClients == {"raw_input_1", "raw_input_2"}

Tasks == {"processor", "cleanup", "display", "http"} \cup RawClients

\* the request paths a client can send (a path holds no whitespace)
HttpPaths == {"/", "/data.json"}

\* the path handle_http_client compares the request path with
DataJsonPath == "/data. json"

NonLeaseVars == <<cfg, known_icaos, validated, chan, aircraft, history, now, prune_due, applied,
                  solved, nsteps, fn_in, fn_out, ChannelVars, WindowVars, ScanVars>>

InitLease ==
    /\ cfg = DefaultConfig
    /\ known_icaos = {}
    /\ validated = {}
    /\ chan = <<>>
    /\ aircraft = EmptyStore
    /\ history = EmptyStore
    /\ now = 0
    /\ prune_due = FALSE
    /\ applied = None
    /\ solved = None
    /\ nsteps = 0
    /\ fn_in = None
    /\ fn_out = None
    /\ ChannelIdle
    /\ WindowIdle
    /\ ScanIdle
    /\ task_pos = [t \in Tasks |->
                      CASE t = "processor" -> "recv"
                        [] t = "cleanup"   -> "tick"
                        [] t = "display"   -> "sleep"
                        [] t = "http"      -> "request"
                        [] t \in RawClients -> "read_line"]
    /\ lease = [t \in Tasks |-> "none"]

\* RwLock::write returns when nobody holds the lock
WriteFree == \A t \in Tasks : lease[t] = "none"

\* RwLock::read returns when no writer holds the lock
ReadFree == \A t \in Tasks : lease[t] # "write"

\* task t is at position from
At(t, from) == task_pos[t] = from

\* task t moves to position to and then holds held
Move(t, to, held) ==
    /\ task_pos' = [task_pos EXCEPT ![t] = to]
    /\ lease' = [lease EXCEPT ![t] = held]
    /\ UNCHANGED NonLeaseVars

\* process_messages: a record that passes the gate; store.write()
ProcessorAcquire == WriteFree /\ At("processor", "recv") /\ Move("processor", "update", "write")

\* process_messages: a record that does not pass the gate
ProcessorSkip == At("processor", "recv") /\ Move("processor", "print", "none")

\* process_messages: update_from_message is done, the guard's scope ends
ProcessorRelease == At("processor", "update") /\ Move("processor", "print", "none")

\* process_messages: println! of the record
ProcessorPrint == At("processor", "print") /\ Move("processor", "recv", "none")

\* cleanup task: interval.tick() has returned; store.write()
CleanupAcquire == WriteFree /\ At("cleanup", "tick") /\ Move("cleanup", "remove_stale", "write")

\* cleanup task: remove_stale is done, the guard drops at the end of the loop body
CleanupRelease == At("cleanup", "remove_stale") /\ Move("cleanup", "tick", "none")

\* interactive_display: sleep is over; clear screen, header lines
DisplayHeader == At("display", "sleep") /\ Move("display", "header", "none")

\* interactive_display: store.read(); all().collect() and the sort
DisplayAcquire == ReadFree /\ At("display", "header") /\ Move("display", "collect", "read")

\* interactive_display: println! of the rows, the guard still alive
DisplayRows == At("display", "collect") /\ Move("display", "rows", "read")

\* interactive_display: println! of the footer and flush, the guard still alive
DisplayFooter == At("display", "rows") /\ Move("display", "footer", "read")

\* interactive_display: the guard drops at the end of the loop body
DisplayRelease == At("display", "footer") /\ Move("display", "sleep", "none")

\* handle_http_client: the request is read; for the data path the content is
\* built from to_json under store.read(), whose guard drops with the block
HttpBuildContent ==
    \E path \in HttpPaths :
        /\ At("http", "request")
        /\ path = DataJsonPath => ReadFree
        /\ Move("http", "respond", "none")

\* handle_http_client: write_all of the response; the next connection
HttpRespond == At("http", "respond") /\ Move("http", "request", "none")

\* handle_raw_input_client: a line decoded and admitted; store.write()
RawInputAcquire == \E c \in RawClients : WriteFree /\ At(c, "read_line") /\ Move(c, "update", "write")

\* handle_raw_input_client: the inner block ends
RawInputRelease == \E c \in RawClients : At(c, "update") /\ Move(c, "broadcast", "none")

\* handle_raw_input_client: tx.send to the raw output clients
RawInputBroadcast == \E c \in RawClients : At(c, "broadcast") /\ Move(c, "read_line", "none")

NextLease ==
    \/ ProcessorAcquire \/ ProcessorSkip \/ ProcessorRelease \/ ProcessorPrint
    \/ CleanupAcquire \/ CleanupRelease
    \/ DisplayHeader \/ DisplayAcquire \/ DisplayRows \/ DisplayFooter \/ DisplayRelease
    \/ HttpBuildContent \/ HttpRespond
    \/ RawInputAcquire \/ RawInputRelease \/ RawInputBroadcast

SpecLease == InitLease /\ [][NextLease]_vars

\* the positions at which a task reads or writes a socket or the terminal
DoesIo(t) ==
    task_pos[t] \in {"print", "header", "rows", "footer", "request", "respond", "read_line"}

\* C18 as stated: update_from_message and remove_stale run only under the
\* write lease, readers run only under the read lease, and no task performs
\* I/O while holding either lease.
LeasesHeldOnlyForStoreAccess ==
    \A t \in Tasks :
        /\ task_pos[t] \in {"update", "remove_stale"} => lease[t] = "write"
        /\ task_pos[t] = "collect" => lease[t] = "read"
        /\ DoesIo(t) => lease[t] = "none"

-----------------------------------------------------------------------------
(* Specification SpecWindow: the read loop of process_file, with the buffer *)
(* scaled down: WindowLen stands for MODES_DATA_LEN and OverlapLen for      *)
(* (MODES_FULL_LEN - 1) * 4                                                 *)

WindowLen == 3
OverlapLen == 2
MaxReads == 3

\* the byte the buffer is created with and short reads are padded with
FILL == 127

\* sample bytes off the reader
Samples == {0, 255}

\* what one call of reader.read can return: 1 to WindowLen bytes
Chunks == UNION {[1..n -> Samples] : n \in 1..WindowLen}

\* vec![127u8; buffer_len]
NewBuffer == [i \in 1..(WindowLen + OverlapLen) |-> FILL]

\* data.copy_within(MODES_DATA_LEN..MODES_DATA_LEN + overlap, 0)
CopyWithin(buf) ==
    [i \in 1..Len(buf) |-> IF i <= OverlapLen THEN buf[WindowLen + i] ELSE buf[i]]

\* reader.read(&mut data[overlap..overlap + MODES_DATA_LEN]) returning chunk
ReadInto(buf, chunk) ==
    [i \in 1..Len(buf) |->
        IF i > OverlapLen /\ i <= OverlapLen + Len(chunk) THEN chunk[i - OverlapLen] ELSE buf[i]]

\* if bytes_read < MODES_DATA_LEN { data[overlap + bytes_read..].fill(127) }
FillTail(buf, bytes_read) ==
    IF bytes_read < WindowLen
    THEN [i \in 1..Len(buf) |-> IF i > OverlapLen + bytes_read THEN FILL ELSE buf[i]]
    ELSE buf

\* the variables the read loop leaves alone
NonWindowVars == <<cfg, known_icaos, validated, chan, aircraft, history, now, prune_due, applied,
                   solved, fn_in, fn_out, loop_file, consumer, sent_log, applied_log, LeaseVars,
                   ScanVars>>

InitWindow ==
    /\ cfg = DefaultConfig
    /\ known_icaos = {}
    /\ validated = {}
    /\ chan = <<>>
    /\ aircraft = EmptyStore
    /\ history = EmptyStore
    /\ now = 0
    /\ prune_due = FALSE
    /\ applied = None
    /\ solved = None
    /\ nsteps = 0
    /\ fn_in = None
    /\ fn_out = None
    /\ ChannelIdle
    /\ LeaseIdle
    /\ data = NewBuffer
    /\ stream = <<>>
    /\ window = <<>>
    /\ ScanIdle

\* one iteration of the loop whose read returns chunk
ReadChunk ==
    \E chunk \in Chunks :
        /\ producer = "reading"
        /\ nsteps < MaxReads
        /\ nsteps' = nsteps + 1
        /\ data' = FillTail(ReadInto(CopyWithin(data), chunk), Len(chunk))
        /\ window' = SubSeq(data', 1, OverlapLen + Len(chunk))
        /\ stream' = stream \o chunk
        /\ UNCHANGED <<producer, NonWindowVars, ScanVars>>

\* the iteration whose read returns 0: the loop breaks
ReadEnd ==
    /\ producer = "reading"
    /\ data' = CopyWithin(data)
    /\ producer' = "done"
    /\ UNCHANGED <<nsteps, stream, window, NonWindowVars, ScanVars>>

NextWindow == ReadChunk \/ ReadEnd

SpecWindow == InitWindow /\ [][NextWindow]_vars

\* C19 as stated: for every sequence of reads of any sizes, short reads
\* before the end of input included, the first (8 + 112 - 1) * 4 bytes of
\* each processing window are the last (8 + 112 - 1) * 4 bytes of the sample
\* stream consumed before that read.
WindowStartsWithTailOfStream ==
    [][(stream' # stream /\ Len(stream) >= OverlapLen)
          => SubSeq(window', 1, OverlapLen)
                 = SubSeq(stream, Len(stream) - OverlapLen + 1, Len(stream))]_vars

-----------------------------------------------------------------------------
(* Specification SpecGillham: decode_gillham_altitude on every 11-bit code, *)
(* and the codes it maps to each altitude of the 100 ft grid                *)

\* the 11-bit codes
GillhamCodes == 0..2047

\* the 100 ft grid over [-1200, 126700]
GillhamGrid == {100 * k : k \in -12..1267}

\* every code with what decode_gillham_altitude returns for it
GillhamDecoded == {<<c, decode_gillham_altitude(c)>> : c \in GillhamCodes}

InitGillham ==
    /\ fn_in \in {[kind |-> "code", value |-> c] : c \in GillhamCodes}
                 \cup {[kind |-> "altitude", value |-> a] : a \in GillhamGrid}
    /\ fn_out = None
    /\ PipelineIdle

\* decode_gillham_altitude(code)
DecodeGillham ==
    /\ fn_out = None
    /\ fn_in.kind = "code"
    /\ fn_out' = Some(decode_gillham_altitude(fn_in.value))
    /\ UNCHANGED <<fn_in, PipelineVars>>

\* the codes decode_gillham_altitude maps to the altitude
CodesOfAltitude ==
    /\ fn_out = None
    /\ fn_in.kind = "altitude"
    /\ fn_out' = Some({t[1] : t \in {u \in GillhamDecoded : u[2] = Some(fn_in.value)}})
    /\ UNCHANGED <<fn_in, PipelineVars>>

NextGillham == DecodeGillham \/ CodesOfAltitude

SpecGillham == InitGillham /\ [][NextGillham]_vars

\* C20 as stated: for every altitude on the 100 ft grid over [-1200, 126700]
\* there is an 11-bit code that decode_gillham_altitude maps to it (so that
\* encoding and then decoding can be the identity), and every value the
\* decoder returns lies in [-1200, 126700] on that grid.
GillhamCoversGridAndStaysInRange ==
    /\ (fn_out # None /\ fn_in.kind = "altitude") => Unwrap(fn_out) # {}
    /\ (fn_out # None /\ fn_in.kind = "code" /\ Unwrap(fn_out) # None)
           => Unwrap(Unwrap(fn_out)) \in GillhamGrid

-----------------------------------------------------------------------------
(* Specification SpecShutdown: main replays a file that ends, without       *)
(* --interactive and with stdout open: the processor task is spawned, the   *)
(* file is demodulated, and main aborts the tasks and leaves block_on.      *)

InitShutdown ==
    /\ cfg = DefaultConfig
    /\ known_icaos = {}
    /\ validated = {}
    /\ chan = <<>>
    /\ aircraft = EmptyStore
    /\ history = EmptyStore
    /\ now = 0
    /\ prune_due = FALSE
    /\ applied = None
    /\ solved = None
    /\ nsteps = 0
    /\ fn_in = None
    /\ fn_out = None
    /\ loop_file = FALSE
    /\ producer = "reading"
    /\ consumer = "spawned"
    /\ sent_log = <<>>
    /\ applied_log = <<>>
    /\ LeaseIdle
    /\ WindowIdle
    /\ ScanIdle

\* rx.recv() returns Err: the channel is empty and msg_tx was dropped when
\* run_demodulation returned
RecvDisconnected ==
    /\ chan = <<>>
    /\ producer \in {"done", "aborting"}
    /\ ProcessMessagesEnds

NextShutdown ==
    \/ FrameDemodulated
    \/ EndOfFile
    \/ ProcessorFirstPoll
    \/ ProcessMessages
    \/ RecvDisconnected
    \/ AbortProcessor
    \/ ProcessExit

SpecShutdown == InitShutdown /\ [][NextShutdown]_vars

\* C21: once the process has exited after the end of the file, every frame
\* the producer sent on the channel has been applied to the tracker, in the
\* order sent: none was dropped with the aborted consumer task
EveryFrameSentAppliedBeforeExit ==
    producer = "exited" => applied_log = sent_log

-----------------------------------------------------------------------------
(* Specification SpecCpr: decode_cpr on one Aircraft record with both       *)
(* fragments staged.                                                        *)

\* raw 17-bit latitudes: the reference pair and two pairs around 10.47
\* degrees, where NL steps from 59 to 58
CprEvenLats == {0, 74158, 93000, 97431, 97700}
CprOddLats == {0, 74158, 93900, 94052}
CprLons == {50194, 51372}

\* the positions committed earlier: none, or 10.25 N 4.5 E
CprPrevious == {<<[n |-> 0, d |-> 1], [n |-> 0, d |-> 1]>>, <<[n |-> 41, d |-> 4], [n |-> 9, d |-> 2]>>}

InitCpr ==
    /\ fn_in \in {[NewAircraft(4219421, 0) EXCEPT
                      !.even_cprlat = e, !.odd_cprlat = o,
                      !.even_cprlon = le, !.odd_cprlon = lo,
                      !.even_cprtime = <<0, IF newer THEN 2 ELSE 1>>,
                      !.odd_cprtime = <<0, IF newer THEN 1 ELSE 2>>,
                      !.lat = p[1], !.lon = p[2], !.messages = 2] :
                    e \in CprEvenLats, o \in CprOddLats, le \in CprLons, lo \in CprLons,
                    newer \in BOOLEAN, p \in CprPrevious}
    /\ fn_out = None
    /\ PipelineIdle

DecodeCpr ==
    /\ fn_out = None
    /\ fn_out' = Some(decode_cpr(fn_in))
    /\ UNCHANGED <<fn_in, PipelineVars>>

NextCpr == DecodeCpr

SpecCpr == InitCpr /\ [][NextCpr]_vars

\* C24: when the two intermediate latitudes fall in different NL bands,
\* decode_cpr returns the record as it was (position, staged fragments and
\* their timestamps); and whenever it changes the record, the two latitudes
\* have the same NL and only lat and lon change.
NlMismatchAbortsSilently ==
    fn_out # None =>
        /\ ~CprCommits(fn_in) => Unwrap(fn_out) = fn_in
        /\ Unwrap(fn_out) # fn_in =>
              /\ CprCommits(fn_in)
              /\ [Unwrap(fn_out) EXCEPT !.lat = fn_in.lat, !.lon = fn_in.lon] = fn_in

\* a pair across the NL 59/58 boundary was handed to decode_cpr with an
\* earlier position in the record, and the record came back unchanged
WitnessNlMismatchKeptPosition ==
    /\ fn_out # None
    /\ fn_in.even_cprlat = 97431 /\ fn_in.odd_cprlat = 94052
    /\ ~CprCommits(fn_in)
    /\ fn_in.lat.n # 0
    /\ Unwrap(fn_out).lat = fn_in.lat /\ Unwrap(fn_out).lon = fn_in.lon

-----------------------------------------------------------------------------
(* Specification SpecBds20: try_decode_bds_20 on one MB field.              *)

\* the seven MB bytes that carry the eight 6-bit indices c
PackIndices(c) ==
    << Shl(c[1], 2) + Shr(c[2], 4),
       Shl(BitAnd(c[2], 15), 4) + Shr(c[3], 2),
       Shl(BitAnd(c[3], 3), 6) + c[4],
       Shl(c[5], 2) + Shr(c[6], 4),
       Shl(BitAnd(c[6], 15), 4) + Shr(c[7], 2),
       Shl(BitAnd(c[7], 3), 6) + c[8],
       0 >>

\* index 0 ('@' in the AIS alphabet, '?' in AIS_CHARSET), a letter, the
\* space, a '?' next to the space, a digit
Bds20Heads == {0, 4, 32, 33, 49}

\* what follows the first three characters
Bds20Tails == {<<32, 32, 32, 32, 32>>, <<0, 0, 0, 0, 0>>, <<1, 2, 49, 50, 32>>, <<33, 32, 32, 32, 32>>}

InitBds20 ==
    /\ fn_in \in {PackIndices(<<a, b, c>> \o t) :
                     a \in Bds20Heads, b \in Bds20Heads, c \in Bds20Heads, t \in Bds20Tails}
    /\ fn_out = None
    /\ PipelineIdle

TryDecodeBds20 ==
    /\ fn_out = None
    /\ fn_out' = Some(try_decode_bds_20(fn_in))
    /\ UNCHANGED <<fn_in, PipelineVars>>

NextBds20 == TryDecodeBds20

SpecBds20 == InitBds20 /\ [][NextBds20]_vars

\* C25: try_decode_bds_20 returns a record only for an MB field whose eight
\* indices all map to characters other than '?'; the callsign returned is
\* not empty and holds no '?'; a field of '?' indices only is rejected.
Bds20CallsignHasNoQuestionMark ==
    fn_out # None =>
        /\ Unwrap(fn_out) # None =>
              /\ \A n \in 1..8 : AIS_CHARSET[CharIndices(fn_in, 0)[n] + 1] # "?"
              /\ Unwrap(Unwrap(fn_out)).callsign # <<>>
              /\ \A n \in 1..Len(Unwrap(Unwrap(fn_out)).callsign) :
                    Unwrap(Unwrap(fn_out)).callsign[n] # "?"
        /\ (\A n \in 1..8 : AIS_CHARSET[CharIndices(fn_in, 0)[n] + 1] = "?")
              => Unwrap(fn_out) = None

-----------------------------------------------------------------------------
(* Under SpecDecode: the header fields of the record against the buffer it  *)
(* stores.                                                                  *)

\* C26: in every record decode_modes_message returns, repaired or not,
\* msg_type is the top five bits of byte 0 of the stored buffer and, for
\* DF11, DF17 and DF18, aa is bytes 1-3 of the stored buffer.
ReportedFieldsReadFromStoredBuffer ==
    fn_out # None =>
        /\ Unwrap(fn_out).msg_type = Shr(B(Unwrap(fn_out).msg, 0), 3)
        /\ IcaoInMessage(Unwrap(fn_out).msg_type)
              => icao_address(Unwrap(fn_out)) = StoredAddress(Unwrap(fn_out))

-----------------------------------------------------------------------------
(* Under Spec: the downlink formats that reach the channel.                 *)

\* C30: every record the demodulator has sent is a DF11/17/18 whose CRC
\* checked out or a DF0/4/5/16/20/21 whose recovered address is in the known
\* set; a record of any other format is neither sent nor applied to the
\* store.
OnlyListedFormatsForwarded ==
    /\ \A n \in 1..Len(sent_log) :
          \/ sent_log[n].msg_type \in {11, 17, 18} /\ sent_log[n].crc_ok
          \/ /\ sent_log[n].msg_type \in {0, 4, 5, 16, 20, 21}
             /\ icao_address(sent_log[n]) \in known_icaos
    /\ \A n \in 1..Len(applied_log) :
          applied_log[n].msg_type \in {0, 4, 5, 11, 16, 17, 18, 20, 21}

-----------------------------------------------------------------------------
(* Specification SpecSignal: the signal level detect_modes_external         *)
(* computes from the four preamble peaks.                                   *)

U16 == 65536

\* Iterator::sum::<u16>() over the peaks: an addition that overflows panics
\* when the build has overflow checks (the dev profile) and wraps when it
\* has none (the release profile). None is the panic.
SumU16(peaks, overflow_checks) ==
    LET total == peaks[1] + peaks[2] + peaks[3] + peaks[4]
    IN  IF total < U16 THEN Some(total)
        ELSE IF overflow_checks THEN None
        ELSE Some(total % U16)

\* let signal_level = preamble_peaks.iter().sum::<u16>() / 4
SignalLevel(peaks, overflow_checks) ==
    IF SumU16(peaks, overflow_checks) = None THEN None
    ELSE Some(Unwrap(SumU16(peaks, overflow_checks)) \div 4)

\* magnitudes of a peak: silence, the largest four that still add up within
\* 16 bits, the next one, a sample on one axis at full scale, the largest
\* entry of the magnitude table, the largest u16
PeakLevels == {0, 3600, 16383, 16384, 46080, 65167, 65535}

InitSignal ==
    /\ fn_in \in {<<a, b, c, d>> : a \in PeakLevels, b \in PeakLevels, c \in PeakLevels, d \in PeakLevels}
    /\ fn_out = None
    /\ PipelineIdle

ComputeSignalLevel ==
    /\ fn_out = None
    /\ \E overflow_checks \in BOOLEAN : fn_out' = Some(SignalLevel(fn_in, overflow_checks))
    /\ UNCHANGED <<fn_in, PipelineVars>>

NextSignal == ComputeSignalLevel

SpecSignal == InitSignal /\ [][NextSignal]_vars

\* C27: for all magnitudes of the four preamble peaks the signal level is
\* the floor of a quarter of their sum; the sum does not overflow.
SignalLevelIsMeanOfPeaks ==
    fn_out # None =>
        Unwrap(fn_out) = Some((fn_in[1] + fn_in[2] + fn_in[3] + fn_in[4]) \div 4)

-----------------------------------------------------------------------------
(* magnitude.rs: the magnitude table.                                       *)

\* floor of the square root of s, for s up to 128 * 128 * 2
FloorSqrt(s) == CHOOSE k \in 0..181 : k * k <= s /\ s < (k + 1) * (k + 1)

\* (sqrt(s) * 360.0).round(): the r = 360 * k + d, k = FloorSqrt(s), with
\* (r - 1/2)^2 <= 129600 * s < (r + 1/2)^2, i.e. r * (r - 1) < 129600 * s <=
\* r * (r + 1), compared after taking 129600 * k * k off both sides
RoundSqrtTimes360(s, k) ==
    IF s = 0 THEN 0
    ELSE 360 * k + CHOOSE d \in 0..360 :
            /\ 720 * k * d + d * d - 360 * k - d < 129600 * (s - k * k)
            /\ 129600 * (s - k * k) <= 720 * k * d + d * d + 360 * k + d

\* MagnitudeLut::lookup(i, q) on the table MagnitudeLut::new fills
MagnitudeLut(i, q) == RoundSqrtTimes360(i * i + q * q, FloorSqrt(i * i + q * q))

\* (chunk[n] as i16 - 127).unsigned_abs() as u8, then .min(128)
OffsetMagnitude(byte) == Min(Abs(byte - 127), 128)

compute_magnitude_vector(bytes) ==
    [n \in 1..(Len(bytes) \div 2) |->
        MagnitudeLut(OffsetMagnitude(bytes[2 * n - 1]), OffsetMagnitude(bytes[2 * n]))]

-----------------------------------------------------------------------------
(* signal.rs: the noise floor and the band in which a decode is retried.    *)

NOISE_FLOOR_SAMPLES == 256

\* magnitude.iter().step_by(16)
EverySixteenth(m) == [n \in 1..((Len(m) + 15) \div 16) |-> m[16 * (n - 1) + 1]]

\* samples[k] after samples.sort_unstable(), k counted from 0
SortedAt(samples, k) ==
    CHOOSE v \in {samples[n] : n \in DOMAIN samples} :
        /\ Cardinality({n \in DOMAIN samples : samples[n] < v}) <= k
        /\ k < Cardinality({n \in DOMAIN samples : samples[n] <= v})

\* the lower quartile of every sixteenth sample
NoiseEstimate(m) == SortedAt(EverySixteenth(m), Len(EverySixteenth(m)) \div 4)

RECURSIVE SumOf(_)
SumOf(s) == IF s = <<>> THEN 0 ELSE Head(s) + SumOf(Tail(s))

\* noise_samples.push_back(estimate), then pop_front past NOISE_FLOOR_SAMPLES
PushEstimate(samples, estimate) ==
    IF Len(samples) + 1 > NOISE_FLOOR_SAMPLES
    THEN Tail(Append(samples, estimate))
    ELSE Append(samples, estimate)

\* the SignalProcessor whose recent estimates are kept
AveragedOver(kept) == [noise_floor |-> SumOf(kept) \div Len(kept), noise_samples |-> kept]

update_noise_floor(sp, m) ==
    IF Len(m) < 100 THEN sp
    ELSE AveragedOver(PushEstimate(sp.noise_samples, NoiseEstimate(m)))

\* calculate_snr_db is 0.0 unless the level exceeds a non-zero noise floor,
\* else 20 * log10(level / floor); it lies in [2.0, 8.0] when level / floor
\* lies in [10^0.1, 10^0.4], taken here to four decimals (1.2589, 2.5119)
should_try_phase_correction(sp, signal_level) ==
    /\ sp.noise_floor # 0
    /\ signal_level > sp.noise_floor
    /\ 10000 * signal_level >= 12589 * sp.noise_floor
    /\ 10000 * signal_level <= 25119 * sp.noise_floor

-----------------------------------------------------------------------------
(* demodulator.rs: one iteration of the scan loop of detect_modes_external  *)
(* and of detect_modes_with_icao_tracking, on the magnitude vector m with   *)
(* the cursor at j. Indices count from 0 as in the source.                  *)

MODES_PREAMBLE_US == 8

MODES_FULL_LEN == MODES_PREAMBLE_US + MODES_LONG_MSG_BITS

\* magnitude[i]; an index past the end is caught by the callers
M(m, i) == IF i < Len(m) THEN m[i + 1] ELSE 0

\* the ten comparisons of the preamble test in the order the && chain
\* evaluates them: <<offset of the left sample, of the right sample, left > right>>
PreambleTests ==
    << <<0, 1, TRUE>>, <<1, 2, FALSE>>, <<2, 3, TRUE>>, <<3, 0, FALSE>>, <<4, 0, FALSE>>,
       <<5, 0, FALSE>>, <<6, 0, FALSE>>, <<7, 8, TRUE>>, <<8, 9, FALSE>>, <<9, 6, TRUE>> >>

\* the highest offset read once the chain has evaluated comparison c
PreambleReach == <<1, 2, 3, 3, 4, 5, 6, 8, 9, 9>>

PreambleTestHolds(m, j, t) ==
    /\ j + t[1] < Len(m)
    /\ j + t[2] < Len(m)
    /\ IF t[3] THEN M(m, j + t[1]) > M(m, j + t[2]) ELSE M(m, j + t[1]) < M(m, j + t[2])

\* the first comparison that fails or reads past the end; 11 when none does
FirstFailing(m, j) ==
    IF \A c \in 1..10 : PreambleTestHolds(m, j, PreambleTests[c]) THEN 11
    ELSE CHOOSE c \in 1..10 :
            /\ ~PreambleTestHolds(m, j, PreambleTests[c])
            /\ \A b \in 1..(c - 1) : PreambleTestHolds(m, j, PreambleTests[b])

PreamblePeaks(m, j) == <<M(m, j), M(m, j + 2), M(m, j + 7), M(m, j + 9)>>

\* ((m[j] as u32 + m[j+2] as u32 + m[j+7] as u32 + m[j+9] as u32) / 6) as u16
High(m, j) == (M(m, j) + M(m, j + 2) + M(m, j + 7) + M(m, j + 9)) \div 6

\* the levels between the spikes stay under the threshold
SpikesQuiet(m, j) == M(m, j + 4) < High(m, j) /\ M(m, j + 5) < High(m, j)

\* the samples between preamble and data stay under the threshold
GapQuiet(m, j) == \A k \in 11..14 : M(m, j + k) < High(m, j)

\* what the tests in front of the decode find at j, and the highest index
\* they read
Prefilter(m, j) ==
    IF FirstFailing(m, j) <= 10
    THEN [pass |-> FALSE, outcome |-> "no_preamble", reads |-> j + PreambleReach[FirstFailing(m, j)]]
    ELSE IF ~SpikesQuiet(m, j)
    THEN [pass |-> FALSE, outcome |-> "threshold", reads |-> j + 9]
    ELSE IF ~GapQuiet(m, j)
    THEN [pass |-> FALSE, outcome |-> "threshold",
          reads |-> j + (CHOOSE k \in 11..14 :
                            /\ M(m, j + k) >= High(m, j)
                            /\ \A b \in 11..(k - 1) : M(m, j + b) < High(m, j))]
    ELSE [pass |-> TRUE, outcome |-> "decode", reads |-> j + 14]

\* index of the first of the two samples of bit i of a frame whose preamble
\* starts at start_pos
BitIndex(start_pos, i) == start_pos + MODES_PREAMBLE_US * 2 + i * 2

\* the slicers' decision for bit i: 1 when the first sample of the pair is
\* the larger, 0 when it is the smaller, on a tie the bit before (0 for the
\* first bit)
SlicedBit(m, start_pos, i) ==
    IF \A k \in 0..i : M(m, BitIndex(start_pos, k)) = M(m, BitIndex(start_pos, k) + 1)
    THEN 0
    ELSE IF M(m, BitIndex(start_pos, i)) # M(m, BitIndex(start_pos, i) + 1)
    THEN IF M(m, BitIndex(start_pos, i)) > M(m, BitIndex(start_pos, i) + 1) THEN 1 ELSE 0
    ELSE IF M(m, BitIndex(start_pos, i - 1)) # M(m, BitIndex(start_pos, i - 1) + 1)
    THEN IF M(m, BitIndex(start_pos, i - 1)) > M(m, BitIndex(start_pos, i - 1) + 1) THEN 1 ELSE 0
    ELSE LET k == CHOOSE k \in 0..i :
                    /\ M(m, BitIndex(start_pos, k)) # M(m, BitIndex(start_pos, k) + 1)
                    /\ \A l \in (k + 1)..i :
                          M(m, BitIndex(start_pos, l)) = M(m, BitIndex(start_pos, l) + 1)
         IN  IF M(m, BitIndex(start_pos, k)) > M(m, BitIndex(start_pos, k) + 1) THEN 1 ELSE 0

\* detect_modes_with_icao_tracking breaks out of the slicing at the first
\* pair that reaches past the end and leaves the remaining bits 0
SlicedBitOrZero(m, start_pos, i) ==
    IF BitIndex(start_pos, i) + 1 >= Len(m) THEN 0 ELSE SlicedBit(m, start_pos, i)

\* msg[b]: eight sliced bits, the first one the most significant
SlicedByte(m, start_pos, b) ==
    128 * SlicedBitOrZero(m, start_pos, 8 * b) + 64 * SlicedBitOrZero(m, start_pos, 8 * b + 1)
    + 32 * SlicedBitOrZero(m, start_pos, 8 * b + 2) + 16 * SlicedBitOrZero(m, start_pos, 8 * b + 3)
    + 8 * SlicedBitOrZero(m, start_pos, 8 * b + 4) + 4 * SlicedBitOrZero(m, start_pos, 8 * b + 5)
    + 2 * SlicedBitOrZero(m, start_pos, 8 * b + 6) + SlicedBitOrZero(m, start_pos, 8 * b + 7)

SlicedMessage(m, start_pos) ==
    [b \in 1..MODES_LONG_MSG_BYTES |-> SlicedByte(m, start_pos, b - 1)]

\* &msg[..msg_len], msg_len the length of the format in byte 0
SlicedFrame(msg) == SubSeq(msg, 1, message_len_by_type(Shr(msg[1], 3)) \div 8)

\* try_decode_message returns None when the last pair reaches past the end
SliceInWindow(m, start_pos) == BitIndex(start_pos, MODES_LONG_MSG_BITS - 1) + 1 < Len(m)

\* try_decode_message(magnitude, start_pos, phase_corrected, signal_level, tx):
\* the known set afterwards and the record sent and returned, if any
try_decode_message(m, start_pos, phase_corrected, signal_level, known, c) ==
    IF ~SliceInWindow(m, start_pos) THEN [known |-> known, sent |-> None]
    ELSE Dispatch([decode_modes_message(SlicedFrame(SlicedMessage(m, start_pos)),
                                        c.fix_errors, c.aggressive)
                      EXCEPT !.phase_corrected = phase_corrected,
                             !.signal_level = signal_level],
                  known)

\* a cursor that moves on by one sample after an accepted frame as well
AdvanceOne(msg_bits) == 1

\* j += (MODES_PREAMBLE_US + mm.msg_bits / 8 * 8) * 2
Advance(msg_bits) == (MODES_PREAMBLE_US + (msg_bits \div 8) * 8) * 2

\* the record of an iteration that started at j: what it found, where it
\* leaves the cursor, the dispatch d it ended with, whether a first decode
\* failed, whether the decode was retried at j + 1, the signal level it
\* computed (None when it computed none) and the highest index it read
Iteration(j, outcome, next, d, first_failed, retried, level, reads) ==
    [at |-> j, outcome |-> outcome, next |-> next, sent |-> d.sent, known |-> d.known,
     first_failed |-> first_failed, retried |-> retried, level |-> level, reads |-> reads]

\* an iteration that ends before any decode
Undecoded(j, outcome, next, known, reads) ==
    Iteration(j, outcome, next, [known |-> known, sent |-> None], FALSE, FALSE, None, reads)

\* an iteration that ends with the dispatch d of the frame it sliced last
AfterDispatch(j, d, first_failed, retried, level, reads) ==
    IF d.sent # None
    THEN Iteration(j, "accepted", j + Advance(Unwrap(d.sent).msg_bits), d, first_failed, retried,
                   level, reads)
    ELSE Iteration(j, "dropped", j + 1, d, TRUE, retried, level, reads)

\* detect_modes_external after the first try_decode_message returned first
ExternalAfterFirst(m, j, known, sp, c, level, first) ==
    IF first.sent # None \/ ~should_try_phase_correction(sp, level)
    THEN AfterDispatch(j, first, FALSE, FALSE, Some(level), BitIndex(j, MODES_LONG_MSG_BITS - 1) + 1)
    ELSE AfterDispatch(j, try_decode_message(m, j + 1, TRUE, level, known, c), TRUE, TRUE,
                  Some(level), BitIndex(j + 1, MODES_LONG_MSG_BITS - 1) + 1)

\* one iteration of the while loop of detect_modes_external; an index past
\* the end and, with overflow checks, a sum of the peaks past 16 bits panic
ExternalIteration(m, j, known, sp, c, overflow_checks) ==
    IF Prefilter(m, j).reads >= Len(m) THEN Undecoded(j, "panic", j, known, Prefilter(m, j).reads)
    ELSE IF ~Prefilter(m, j).pass
    THEN Undecoded(j, Prefilter(m, j).outcome, j + 1, known, Prefilter(m, j).reads)
    ELSE IF SignalLevel(PreamblePeaks(m, j), overflow_checks) = None
    THEN Undecoded(j, "panic", j, known, j + 14)
    ELSE ExternalAfterFirst(m, j, known, sp, c,
                            Unwrap(SignalLevel(PreamblePeaks(m, j), overflow_checks)),
                            try_decode_message(m, j, FALSE,
                                Unwrap(SignalLevel(PreamblePeaks(m, j), overflow_checks)), known, c))

\* one iteration of the while loop of detect_modes_with_icao_tracking: the
\* frame is sliced and dispatched in place, once
FileIteration(m, j, known, c) ==
    IF Prefilter(m, j).reads >= Len(m) THEN Undecoded(j, "panic", j, known, Prefilter(m, j).reads)
    ELSE IF ~Prefilter(m, j).pass
    THEN Undecoded(j, Prefilter(m, j).outcome, j + 1, known, Prefilter(m, j).reads)
    ELSE AfterDispatch(j,
                  Dispatch(decode_modes_message(SlicedFrame(SlicedMessage(m, j)),
                                                c.fix_errors, c.aggressive), known),
                  FALSE, FALSE, None,
                  Min(BitIndex(j, MODES_LONG_MSG_BITS - 1) + 1, Len(m) - 1))

\* a.saturating_sub(b)
SaturatingSub(a, b) == IF a >= b THEN a - b ELSE 0

\* a scan that goes on to the last sample
ScanToEnd(j, mlen) == j < mlen

\* while j < mlen.saturating_sub(MODES_FULL_LEN * 2)
ScanContinues(j, mlen) == j < SaturatingSub(mlen, MODES_FULL_LEN * 2)

-----------------------------------------------------------------------------
(* Specification SpecScan: a sample stream is read window by window, by     *)
(* process_file or by the rtl_sdr loop of main.rs, and each window is       *)
(* scanned by the detector that loop calls, one iteration of its while loop *)
(* per step. Preamble, frames and overlap have their real lengths; the read *)
(* size is scaled down: ScanDataLen bytes stand for MODES_DATA_LEN.         *)

ScanDataLen == 600

\* let overlap = (MODES_FULL_LEN - 1) * 4
ScanOverlap == (MODES_FULL_LEN - 1) * 4

\* vec![127u8; buffer_len]
NewScanBuffer == [i \in 1..(ScanDataLen + ScanOverlap) |-> 127]

\* the buffer after copy_within, the read of chunk and the fill of what a
\* short read leaves
ScanBufferNext(buf, chunk) ==
    [i \in 1..(ScanDataLen + ScanOverlap) |->
        IF i <= ScanOverlap THEN buf[ScanDataLen + i]
        ELSE IF i <= ScanOverlap + Len(chunk) THEN chunk[i - ScanOverlap]
        ELSE IF Len(chunk) < ScanDataLen THEN 127
        ELSE buf[i]]

Max(a, b) == IF a > b THEN a ELSE b

\* the sixteen samples of a preamble: 1 is a pulse
PreamblePulses == <<1, 0, 1, 0, 0, 0, 0, 1, 0, 1, 0, 0, 0, 0, 0, 0>>

\* bit i of a frame, the first bit of byte 0 being bit 0
FrameBit(frame, i) == Shr(B(frame, i \div 8), 7 - (i % 8)) % 2

\* the two samples of each bit: a pulse in the first half for 1, in the
\* second half for 0
DataPulses(frame) ==
    [n \in 1..(16 * Len(frame)) |->
        IF FrameBit(frame, (n - 1) \div 2) = 1 THEN n % 2 ELSE 1 - (n % 2)]

\* a frame on the air, sampled in phase
FramePulses(frame) == PreamblePulses \o DataPulses(frame)

\* a frame whose data arrives one sample late with respect to its preamble
SlippedPulses(frame) == PreamblePulses \o <<0>> \o DataPulses(frame)

\* amplitudes |I - 127| of the pulses: hi for a pulse, lo for none
Levels(pulses, hi, lo) == [n \in 1..Len(pulses) |-> IF pulses[n] = 1 THEN hi ELSE lo]

\* n samples of background
Quiet(n) == [k \in 1..n |-> 10]

\* the I/Q bytes of samples of the given amplitudes, Q at rest
IqBytes(levels) ==
    [n \in 1..(2 * Len(levels)) |-> IF n % 2 = 1 THEN 127 + levels[(n + 1) \div 2] ELSE 127]

\* levels followed by background up to n samples
PaddedTo(levels, n) == levels \o Quiet(n - Len(levels))

ScanInputs == {"ident", "short", "boundary", "marginal", "slipped", "strong", "tail"}

\* the sample streams: two reads long, but "slipped", which is three reads
\* long, and "tail", which ends two bytes into its second read
InputLevels(input) ==
    CASE input = "ident" ->
            PaddedTo(Quiet(20) \o Levels(FramePulses(FrameIdent), 20, 10), ScanDataLen)
      [] input = "short" ->
            PaddedTo(Quiet(20) \o Levels(FramePulses(FrameDF11), 20, 10) \o Quiet(12)
                     \o Levels(FramePulses(FrameDF4), 20, 10), ScanDataLen)
      [] input = "boundary" ->
            PaddedTo(Quiet(ScanDataLen \div 2 - MODES_FULL_LEN * 2)
                     \o Levels(FramePulses(FrameIdent), 20, 10), ScanDataLen)
      [] input = "marginal" ->
            PaddedTo(Quiet(330) \o Levels(SlippedPulses(FrameIdent), 20, 10), ScanDataLen)
      [] input = "slipped" ->
            PaddedTo(Quiet(ScanDataLen + 50) \o Levels(SlippedPulses(FrameIdent), 16, 10),
                     ScanDataLen + ScanDataLen \div 2)
      [] input = "strong" ->
            PaddedTo(Quiet(20) \o Levels(FramePulses(FrameIdent), 128, 0), ScanDataLen)
      [] input = "tail" ->
            PaddedTo(Quiet(20) \o Levels(FramePulses(FrameIdent), 20, 10), ScanDataLen \div 2 + 1)

InputBytes(input) == IqBytes(InputLevels(input))

\* what is left of the input after k reads of ScanDataLen bytes
Remaining(input, k) == Len(InputBytes(input)) - k * ScanDataLen

\* the bytes read number k + 1 returns
NextChunk(input, k) ==
    SubSeq(InputBytes(input), k * ScanDataLen + 1,
           k * ScanDataLen + Min(ScanDataLen, Remaining(input, k)))

\* the variables neither the read loops nor the detectors touch
NonScanVars == <<cfg, aircraft, history, now, prune_due, applied, solved, fn_in, fn_out,
                 loop_file, consumer, applied_log, LeaseVars, stream, window>>

InitScan ==
    /\ cfg = DefaultConfig
    /\ known_icaos = {}
    /\ validated = {}
    /\ chan = <<>>
    /\ aircraft = EmptyStore
    /\ history = EmptyStore
    /\ now = 0
    /\ prune_due = FALSE
    /\ applied = None
    /\ solved = None
    /\ nsteps = 0
    /\ fn_in = None
    /\ fn_out = None
    /\ ChannelIdle
    /\ LeaseIdle
    /\ data = NewScanBuffer
    /\ stream = <<>>
    /\ window = <<>>
    /\ scenario \in {[detector |-> d, input |-> i] : d \in {"external", "file"}, i \in ScanInputs}
    /\ mag = <<>>
    /\ win_base = 0
    /\ cursor = 0
    /\ scan = "idle"
    /\ iter = None
    /\ noise = NewSignalProcessor
    /\ examined = {}

\* the loop body after its read returned chunk: the buffer, the magnitude
\* vector of data[..overlap + bytes_read] and the entry of the detector,
\* which returns at once on a vector shorter than MODES_FULL_LEN * 2 and
\* whose external variant updates the noise floor first
EnterDetector(chunk) ==
    /\ data' = ScanBufferNext(data, chunk)
    /\ mag' = compute_magnitude_vector(SubSeq(data', 1, ScanOverlap + Len(chunk)))
    /\ nsteps' = nsteps + 1
    /\ win_base' = nsteps * (ScanDataLen \div 2) - ScanOverlap \div 2
    /\ cursor' = 0
    /\ iter' = None
    /\ scan' = IF Len(mag') < MODES_FULL_LEN * 2 THEN "returned" ELSE "scanning"
    /\ noise' = IF scenario.detector = "external" /\ Len(mag') >= MODES_FULL_LEN * 2
                THEN update_noise_floor(noise, mag') ELSE noise
    /\ UNCHANGED <<known_icaos, validated, chan, sent_log, producer, scenario, examined,
                   NonScanVars>>

\* process_file: reader.read returns what the file still holds, up to
\* MODES_DATA_LEN bytes
ProcessFileRead ==
    /\ scenario.detector = "file"
    /\ producer = "reading"
    /\ scan \in {"idle", "returned"}
    /\ Remaining(scenario.input, nsteps) > 0
    /\ EnterDetector(NextChunk(scenario.input, nsteps))

\* run_rtlsdr_command: the inner loop has filled read_size bytes
RunRtlsdrRead ==
    /\ scenario.detector = "external"
    /\ producer = "reading"
    /\ scan \in {"idle", "returned"}
    /\ Remaining(scenario.input, nsteps) >= ScanDataLen
    /\ EnterDetector(NextChunk(scenario.input, nsteps))

\* the read that finds the input at its end: process_file breaks out of its
\* loop, run_rtlsdr_command returns on Ok(0) with a partly filled buffer
ReadAtEnd ==
    /\ producer = "reading"
    /\ scan \in {"idle", "returned"}
    /\ IF scenario.detector = "file" THEN Remaining(scenario.input, nsteps) <= 0
       ELSE Remaining(scenario.input, nsteps) < ScanDataLen
    /\ producer' = "done"
    /\ UNCHANGED <<known_icaos, validated, chan, sent_log, nsteps, data, ScanVars, NonScanVars>>

\* the effect of the iteration it on cursor, known set and channel; a send
\* on the full channel blocks
IterationDone(it) ==
    /\ SendReady(it.sent, chan, consumer)
    /\ iter' = Some(it)
    /\ cursor' = it.next
    /\ scan' = IF it.outcome = "panic" THEN "panicked" ELSE "scanning"
    /\ known_icaos' = it.known
    /\ validated' = IF it.sent # None /\ IcaoInMessage(Unwrap(it.sent).msg_type)
                    THEN validated \cup {StoredAddress(Unwrap(it.sent))} ELSE validated
    /\ chan' = AfterSend(it.sent, chan, consumer)
    /\ sent_log' = IF it.sent # None /\ consumer # "exited"
                   THEN Append(sent_log, Unwrap(it.sent)) ELSE sent_log
    /\ examined' = examined \cup {win_base + k : k \in it.at..Max(it.at, it.next - 1)}
    /\ UNCHANGED <<nsteps, producer, data, scenario, mag, win_base, noise, NonScanVars>>

DetectModesExternalStep ==
    /\ scenario.detector = "external"
    /\ scan = "scanning"
    /\ ScanContinues(cursor, Len(mag))
    /\ \E overflow_checks \in BOOLEAN :
          IterationDone(ExternalIteration(mag, cursor, known_icaos, noise, cfg, overflow_checks))

DetectModesWithIcaoTrackingStep ==
    /\ scenario.detector = "file"
    /\ scan = "scanning"
    /\ ScanContinues(cursor, Len(mag))
    /\ IterationDone(FileIteration(mag, cursor, known_icaos, cfg))

\* the while condition fails and the detector returns
DetectModesReturn ==
    /\ scan = "scanning"
    /\ ~ScanContinues(cursor, Len(mag))
    /\ scan' = "returned"
    /\ UNCHANGED <<known_icaos, validated, chan, sent_log, nsteps, producer, data, scenario, mag,
                   win_base, cursor, iter, noise, examined, NonScanVars>>

NextScan ==
    \/ ProcessFileRead
    \/ RunRtlsdrRead
    \/ ReadAtEnd
    \/ DetectModesExternalStep
    \/ DetectModesWithIcaoTrackingStep
    \/ DetectModesReturn
    \/ ProcessMessages

SpecScan == InitScan /\ [][NextScan]_vars

\* ---------------------------------------------------------------------------
\* Properties of the scan loops (SpecScan)
\* ---------------------------------------------------------------------------

\* a step of either scan loop: it records its iteration and moves the cursor
ScanStep == iter' # None /\ <<cursor, iter>>' # <<cursor, iter>>

\* C22: in both scan loops the cursor advances by exactly (8 + bits) * 2
\* samples after a frame of bits in {56, 112} bits is accepted at j, and by
\* exactly 1 sample when the preamble test fails, the threshold check fails
\* or the frame is dropped.
CursorAdvance ==
    [][ScanStep =>
        LET it == Unwrap(iter') IN
        /\ it.at = cursor
        /\ it.outcome = "accepted" =>
               /\ Unwrap(it.sent).msg_bits \in {56, 112}
               /\ cursor' = cursor + (8 + Unwrap(it.sent).msg_bits) * 2
        /\ it.outcome \in {"no_preamble", "threshold", "dropped"} => cursor' = cursor + 1
       ]_vars

\* a short frame was accepted and the cursor moved 128 samples past its start
WitnessShortFrameAdvance ==
    /\ iter # None
    /\ Unwrap(iter).outcome = "accepted"
    /\ Unwrap(Unwrap(iter).sent).msg_bits = 56
    /\ cursor = Unwrap(iter).at + 128

\* the buffer of the read loop after n reads of the input
RECURSIVE BufferAfter(_, _)
BufferAfter(input, n) ==
    IF n = 0 THEN NewScanBuffer
    ELSE ScanBufferNext(BufferAfter(input, n - 1), NextChunk(input, n - 1))

\* the magnitude window of the n-th read
WindowOfRead(input, n) ==
    compute_magnitude_vector(SubSeq(BufferAfter(input, n), 1,
                                    ScanOverlap + Len(NextChunk(input, n - 1))))

\* the noise-floor estimator fed with the windows of the first n reads
RECURSIVE EstimatorAfter(_, _)
EstimatorAfter(input, n) ==
    IF n = 0 THEN NewSignalProcessor
    ELSE IF Len(WindowOfRead(input, n)) < MODES_FULL_LEN * 2 THEN EstimatorAfter(input, n - 1)
    ELSE update_noise_floor(EstimatorAfter(input, n - 1), WindowOfRead(input, n))

\* the preamble signal level at j of the window m, in 16 bits
PreambleLevel(m, j) == Unwrap(SignalLevel(PreamblePeaks(m, j), FALSE))

\* the first decode at the preamble found at j failed and the preamble level
\* is within [2 dB, 8 dB] of the noise floor of the windows read so far
MarginalFailure(it) ==
    /\ it.first_failed
    /\ should_try_phase_correction(EstimatorAfter(scenario.input, nsteps),
                                   PreambleLevel(mag, it.at))

\* C23: whenever the decode at a detected preamble position j yields no
\* accepted frame and the preamble signal level has an SNR within [2 dB,
\* 8 dB], the decode is retried at j + 1; a record carries phase_corrected
\* only from such a retry; an iteration that accepts nothing leaves the
\* known-address set as it was and emits nothing.
MarginalFailureIsRetried ==
    iter # None =>
        LET it == Unwrap(iter) IN
        /\ MarginalFailure(it) => it.retried
        /\ (it.sent # None /\ Unwrap(it.sent).phase_corrected) =>
               it.retried /\ MarginalFailure(it)
        /\ it.outcome = "dropped" => it.sent = None /\ it.known = known_icaos

\* the number of samples of the input stream
StreamSamples(input) == Len(InputBytes(input)) \div 2

\* C28: over a run of process_file with full-size reads, every offset of the
\* input stream at which a whole preamble and long frame (240 samples) is
\* available has been examined as a candidate preamble start in some window,
\* or lies inside a frame accepted before it was reached.
EveryOffsetExamined ==
    (/\ scenario.detector = "file"
     /\ scenario.input # "tail"
     /\ producer = "done")
        => \A o \in 0..(StreamSamples(scenario.input) - MODES_FULL_LEN * 2) : o \in examined

\* C29: each scan loop terminates on every window: every iteration that
\* completes moves the cursor j forward and leaves it inside the window, an
\* iteration starts only while j < len - 240, every sample index an
\* iteration reads is at most j + 1 + 16 + 2 * 111 + 1 and inside the
\* window, and a window shorter than 240 samples is returned from at once,
\* with no iteration and nothing emitted.
ScanLoopTerminates ==
    /\ [](Len(mag) < 240 => (scan \in {"idle", "returned"} /\ iter = None))
    /\ [](iter # None =>
            /\ Unwrap(iter).reads < Len(mag)
            /\ Unwrap(iter).reads <= Unwrap(iter).at + 1 + 16 + 2 * 111 + 1)
    /\ [][ScanStep =>
            /\ cursor < Len(mag) - 240
            /\ Unwrap(iter').outcome # "panic" => (cursor' > cursor /\ cursor' <= Len(mag))]_vars

\* a retried decode read the last index an iteration can reach, inside the
\* window, and the cursor moved on
WitnessRetryReadsInsideWindow ==
    /\ iter # None
    /\ Unwrap(iter).retried
    /\ Unwrap(iter).reads = Unwrap(iter).at + 240
    /\ Unwrap(iter).reads < Len(mag)
    /\ cursor > Unwrap(iter).at

=============================================================================
